---- MODULE Spec2Model ----
(***************************************************************************)
(* A model of the core subsystems of agents-o-fun:                         *)
(*   - the versioned feature store, AdvancedFeatureWriter                  *)
(*     (src/ai_self_improvement/feature_writer.py);                        *)
(*   - the agent registry, control_agent / _run_agent                      *)
(*     (src/core/agent_registry.py);                                       *)
(*   - the agent manager, AgentManager (src/core/agent_manager.py).        *)
(* Strings that the code takes apart (feature and file names) are tuples   *)
(* of one-character strings, so that split, startswith, endswith, int()    *)
(* and str() are computed the way the code computes them.                  *)
(***************************************************************************)
EXTENDS Integers, Sequences, FiniteSets, TLC

VARIABLES
    max_versions,   \* AdvancedFeatureWriter.max_versions
    files,          \* the plugin directory: file name -> stored code
    performance_records, \* AdvancedFeatureWriter.performance_records
    now,            \* int(time.time())
    fsCall,         \* the store call that returned last, with its result
    writeLog,       \* the names given to write_feature, in call order
    nCalls,         \* the number of the last store call that returned
    results,        \* the argument of assess_performance
    assessed,       \* what assess_performance returned for it
    AGENT_REGISTRY, \* agent_registry.AGENT_REGISTRY
    AGENT_STATUS,   \* agent_registry.AGENT_STATUS
    AGENT_THREADS,  \* agent_registry.AGENT_THREADS
    threads,        \* every thread control_agent has started
    pc,             \* where each caller of control_agent stands
    call,           \* each caller's current call, or the result of its last one
    lastStart,      \* per agent name: whether the call that acted on it last
                    \* was a start ("yes"; "faulted" once a thread of the
                    \* agent has faulted since), else "no"
    observed,       \* per agent name: statuses listed after each scenario call
    instances,      \* AgentManager.instances
    manager_threads, \* AgentManager.threads
    workers,        \* every thread recorded in AgentManager.threads so far
    mpc,            \* where the caller of the AgentManager stands
    mcall,          \* the caller's current manager call, or its last one's result
    instance_keys,  \* the keys of AgentManager.instances, in insertion order
    thread_keys,    \* the keys of AgentManager.threads, in insertion order
    mthread,        \* per thread that calls the manager beside others: its
                    \* current call and position
    got_status,     \* what get_status() returned last
    writer,         \* whether AdvancedFeatureWriter(...) has been constructed
    cycle,          \* where continuous_evaluation_cycle stands
    lock,           \* AdvancedFeatureWriter._lock: Free or the thread holding it
    tpc             \* per thread of the store: its current store call and position

storeVars == <<max_versions, files, performance_records, now, fsCall, writeLog,
               nCalls>>
assessVars == <<results, assessed>>
regVars == <<AGENT_REGISTRY, AGENT_STATUS, AGENT_THREADS, threads, pc, call,
             lastStart, observed>>
mgrVars == <<instances, manager_threads, workers, mpc, mcall, instance_keys,
            thread_keys, mthread, got_status>>
cycVars == <<writer, cycle>>
lockVars == <<lock, tpc>>
vars == <<storeVars, assessVars, regVars, mgrVars, cycVars, lockVars>>

(***************************************************************************)
(* Bounds of the model.                                                    *)
(***************************************************************************)
MaxCap == 2        \* max_versions is drawn from 1..MaxCap
MaxWrites == 4     \* write_feature calls in one behaviour of SpecStore
MaxCalls == 3      \* store calls in one behaviour of SpecImprove
MaxClock == 2      \* the clock runs from 1 to MaxClock
MaxNameLen == 4    \* self_improve is not called on longer feature names
MaxLen == 3        \* longest result sequence given to assess_performance
MaxThreads == 2    \* threads control_agent may start in one behaviour
MaxWorkers == 2    \* threads recorded by the AgentManager in one behaviour

\* the iterations of the evaluation cycle that are counted
MaxIters == 2

\* the features written before the evaluation cycle starts
MaxSeeds == 2

\* the threads that call the store side by side, and the calls they make
MaxStoreThreads == 2
MaxStoreOps == 4

(***************************************************************************)
(* Strings as tuples of characters.                                        *)
(***************************************************************************)
Digits == <<"0", "1", "2", "3", "4", "5", "6", "7", "8", "9">>

IsDigit(c) == \E i \in 1..10 : Digits[i] = c

DigitVal(c) == (CHOOSE i \in 1..10 : Digits[i] = c) - 1

SEP == <<"_", "v">>

PY == <<".", "p", "y">>

\* s.startswith(p)
StartsWith(s, p) == Len(p) <= Len(s) /\ SubSeq(s, 1, Len(p)) = p

\* s.endswith(p)
EndsWith(s, p) == Len(p) <= Len(s) /\ SubSeq(s, Len(s) - Len(p) + 1, Len(s)) = p

\* the positions at which '_v' occurs in s
SepAt(s) == {i \in 1..(Len(s) - 1) : s[i] = "_" /\ s[i + 1] = "v"}

\* '_v' in s
HasSep(s) == SepAt(s) # {}

MinOf(S) == CHOOSE x \in S : \A y \in S : x <= y

MaxOf(S) == CHOOSE x \in S : \A y \in S : x >= y

\* s.split('_v')[0]
SplitFirst(s) == IF HasSep(s) THEN SubSeq(s, 1, MinOf(SepAt(s)) - 1) ELSE s

\* s.split('_v')[-1]
SplitLast(s) == IF HasSep(s) THEN SubSeq(s, MaxOf(SepAt(s)) + 2, Len(s)) ELSE s

\* s[:-3]
DropLast3(s) == SubSeq(s, 1, Len(s) - 3)

\* whether int(s) returns: digits, single underscores allowed between digits
\* (the alphabet of the model has no sign and no white space)
IsIntLiteral(s) ==
    /\ Len(s) > 0
    /\ IsDigit(s[1]) /\ IsDigit(s[Len(s)])
    /\ \A i \in 1..Len(s) : IsDigit(s[i]) \/ s[i] = "_"
    /\ \A i \in 1..(Len(s) - 1) : ~(s[i] = "_" /\ s[i + 1] = "_")

RECURSIVE IntOf(_)
\* int(s) for an s with IsIntLiteral(s)
IntOf(s) ==
    IF Len(s) = 0 THEN 0
    ELSE IF s[Len(s)] = "_" THEN IntOf(SubSeq(s, 1, Len(s) - 1))
    ELSE 10 * IntOf(SubSeq(s, 1, Len(s) - 1)) + DigitVal(s[Len(s)])

RECURSIVE StrOf(_)
\* str(n) for n >= 0
StrOf(n) == IF n < 10 THEN <<Digits[n + 1]>> ELSE StrOf(n \div 10) \o <<Digits[(n % 10) + 1]>>

(***************************************************************************)
(* The plugin directory.                                                   *)
(***************************************************************************)
\* os.path.join(plugin_dir, f"{feature_name}.py")
FilePath(feature_name) == feature_name \o PY

\* feature_code.strip(): the white space around the code is dropped
Strip(code) == [code EXCEPT !.pad = FALSE]

\* open(file_path, 'w') and f.write(feature_code.strip())
PutFile(fs, feature_name, code) ==
    [f \in DOMAIN fs \cup {FilePath(feature_name)} |->
        IF f = FilePath(feature_name) THEN Strip(code) ELSE fs[f]]

\* os.remove of each file of D
RemoveFiles(fs, D) == [f \in DOMAIN fs \ D |-> fs[f]]

RECURSIVE Perms(_)
Perms(S) ==
    IF S = {} THEN {<<>>}
    ELSE UNION {{<<x>> \o p : p \in Perms(S \ {x})} : x \in S}

\* os.listdir(plugin_dir): the stored file names, in an order the file
\* system picks
ListDir(fs) == Perms(DOMAIN fs)

RECURSIVE FilterSeq(_, _, _)
FilterSeq(s, prefix, i) ==
    IF i > Len(s) THEN <<>>
    ELSE (IF StartsWith(s[i], prefix) /\ EndsWith(s[i], PY) THEN <<s[i]>> ELSE <<>>)
         \o FilterSeq(s, prefix, i + 1)

\* [f for f in listing if f.startswith(prefix) and f.endswith('.py')]
Candidates(listing, prefix) == FilterSeq(listing, prefix, 1)

\* whether the sort key of file x can be computed (int() does not raise)
KeyDefined(x) == HasSep(x) => IsIntLiteral(DropLast3(SplitLast(x)))

\* int(x.split('_v')[-1][:-3]) if '_v' in x else 0
VersionKey(x) == IF HasSep(x) THEN IntOf(DropLast3(SplitLast(x))) ELSE 0

\* the place of s[i] in the stable sort: behind the elements with a smaller
\* key, and behind those with its key that come before it
SortedPlace(s, i) ==
    Cardinality({j \in 1..Len(s) :
        \/ VersionKey(s[j]) < VersionKey(s[i])
        \/ VersionKey(s[j]) = VersionKey(s[i]) /\ j <= i})

\* sorted(candidates, key=...): ascending in the key, stable
SortedByKey(s) ==
    [p \in 1..Len(s) |-> s[CHOOSE i \in 1..Len(s) : SortedPlace(s, i) = p]]

\* a plausible slip in the slice: versions[self.max_versions:]
OldVersionsKeepOldest(versions, k) == SubSeq(versions, k + 1, Len(versions))

\* versions[:-self.max_versions], taken when len(versions) > max_versions
OldVersions(versions, k) ==
    IF Len(versions) > k THEN SubSeq(versions, 1, Len(versions) - k) ELSE <<>>

SeqToSet(s) == {s[i] : i \in 1..Len(s)}

\* _cleanup_old_versions raises: the key of one candidate is not a number
CleanupRaises(fs, feature_name) ==
    \E f \in DOMAIN fs :
        /\ StartsWith(f, SplitFirst(feature_name)) /\ EndsWith(f, PY)
        /\ ~KeyDefined(f)

\* the sets of files _cleanup_old_versions may remove, one per listing order
CleanupDeletions(fs, feature_name, k) ==
    LET candidates == {Candidates(listing, SplitFirst(feature_name)) : listing \in ListDir(fs)}
        versions == {SortedByKey(c) : c \in candidates}
    IN {SeqToSet(OldVersions(v, k)) : v \in versions}

\* write_feature: what it may leave stored and what it returns.  The file is
\* written first; an exception of the cleanup is caught by write_feature's
\* handler, which returns False.
WriteOutcomes(fs, feature_name, code, k) ==
    LET fs1 == PutFile(fs, feature_name, code)
    IN IF CleanupRaises(fs1, feature_name)
       THEN {[files |-> fs1, ok |-> FALSE]}
       ELSE {[files |-> RemoveFiles(fs1, D), ok |-> TRUE] :
                D \in CleanupDeletions(fs1, feature_name, k)}

(***************************************************************************)
(* Code artifacts.  A code body is a record: kind says what executing the  *)
(* file defines, pad whether white space surrounds the text.               *)
(*   "scaled"  new_strategy as generate_improved_feature writes it:        *)
(*             profit = expected_return * pf * rf, the factors in tenths   *)
(*   "nostrat" a module that defines no new_strategy                       *)
(*   "broken"  a file whose execution raises (a syntax error, say)         *)
(*   "raises"  new_strategy raises when it is called                       *)
(*   "nonlist" new_strategy returns a value that is no list                *)
(*   "ints"    new_strategy returns a list of integers, one per sample     *)
(***************************************************************************)
Scaled(pf, rf, pad) == [kind |-> "scaled", pf |-> pf, rf |-> rf, pad |-> pad]

NoStrategy == [kind |-> "nostrat", pf |-> 0, rf |-> 0, pad |-> FALSE]

Broken == [kind |-> "broken", pf |-> 0, rf |-> 0, pad |-> FALSE]

Raises == [kind |-> "raises", pf |-> 0, rf |-> 0, pad |-> FALSE]

NonList == [kind |-> "nonlist", pf |-> 0, rf |-> 0, pad |-> FALSE]

Ints == [kind |-> "ints", pf |-> 0, rf |-> 0, pad |-> FALSE]

NoModule == [loaded |-> FALSE, name |-> <<>>, code |-> Broken]

\* a plausible slip: the module is returned although its execution raised
LoadFeatureKeepsBroken(fs, feature_name) ==
    IF FilePath(feature_name) \notin DOMAIN fs THEN NoModule
    ELSE [loaded |-> TRUE, name |-> feature_name, code |-> fs[FilePath(feature_name)]]

\* load_feature: None when the file is missing or its execution raises,
\* else the module, named feature_name
LoadFeature(fs, feature_name) ==
    IF FilePath(feature_name) \notin DOMAIN fs THEN NoModule
    ELSE IF fs[FilePath(feature_name)].kind = "broken" THEN NoModule
    ELSE [loaded |-> TRUE, name |-> feature_name, code |-> fs[FilePath(feature_name)]]

\* hasattr(module, 'new_strategy')
HasNewStrategy(module) ==
    module.loaded /\ module.code.kind \in {"scaled", "raises", "nonlist", "ints"}

(***************************************************************************)
(* assess_performance.  Amounts are integers; a rate is a pair num/den.    *)
(***************************************************************************)
\* trade.get(key, 0)
Get(trade, key) == IF key \in DOMAIN trade THEN trade[key] ELSE 0

RECURSIVE SumProfit(_, _)
\* sum(trade.get('profit', 0) for trade in results[:n])
SumProfit(rs, n) == IF n = 0 THEN 0 ELSE SumProfit(rs, n - 1) + Get(rs[n], "profit")

ZeroPerformance ==
    [profitability |-> 0, success_rate |-> [num |-> 0, den |-> 1], max_drawdown |-> 0]

\* a plausible slip: the drawdown taken against a starting balance of 0
AssessPerformanceFromZero(rs) ==
    IF rs = <<>> THEN ZeroPerformance
    ELSE [profitability |-> SumProfit(rs, Len(rs)),
          success_rate |->
              [num |-> Cardinality({i \in 1..Len(rs) : Get(rs[i], "profit") > 0}),
               den |-> Len(rs)],
          max_drawdown |-> MinOf({0} \cup {SumProfit(rs, i) : i \in 1..Len(rs)})]

\* assess_performance(results)
AssessPerformance(rs) ==
    IF rs = <<>> THEN ZeroPerformance
    ELSE LET cumulative_profits == [i \in 1..Len(rs) |-> SumProfit(rs, i)]
         IN [profitability |-> SumProfit(rs, Len(rs)),
             success_rate |->
                 [num |-> Cardinality({i \in 1..Len(rs) : Get(rs[i], "profit") > 0}),
                  den |-> Len(rs)],
             max_drawdown |-> MinOf({cumulative_profits[i] : i \in 1..Len(rs)})]

(***************************************************************************)
(* The store's operations, each the whole call of a single caller.         *)
(***************************************************************************)
NoPerformance ==
    [profitability |-> 0, success_rate |-> [num |-> 0, den |-> 0], max_drawdown |-> 0]

\* store calls are numbered round a ring longer than any bounded run of calls
CountCall(n) == (n + 1) % (MaxCalls + MaxWrites + 1)

NoCall ==
    [op |-> "none", name |-> <<>>, code |-> Broken, ok |-> FALSE, ret |-> <<>>,
     before |-> <<>>, data |-> <<>>, evaluated |-> FALSE, perf |-> NoPerformance,
     at |-> 0]

\* write_feature(feature_name, feature_code)
WriteFeature(feature_name, feature_code) ==
    /\ \E o \in WriteOutcomes(files, feature_name, feature_code, max_versions) :
        /\ files' = o.files
        /\ fsCall' = [NoCall EXCEPT !.op = "write", !.name = feature_name,
                                    !.code = feature_code, !.ok = o.ok,
                                    !.before = files]
    /\ nCalls' = CountCall(nCalls)
    /\ UNCHANGED <<max_versions, performance_records, now, assessVars, cycVars, lockVars, mgrVars, regVars>>

\* time.time() moves on
Tick ==
    /\ now < MaxClock
    /\ now' = now + 1
    /\ UNCHANGED <<max_versions, files, performance_records, fsCall, writeLog,
                   nCalls, assessVars, cycVars, lockVars, mgrVars, regVars>>

(***************************************************************************)
(* Evaluation and self-improvement.  expected_return is a whole amount; a  *)
(* profit is held in hundredths, so that the factors 1.1 and 0.9 are the   *)
(* integers 11 and 9 over a denominator of Scale.                          *)
(***************************************************************************)
Scale == 100

\* module.new_strategy(data) of a generated strategy:
\*   base_profit = trade.get('expected_return', 0)
\*   profit = base_profit * profit_factor * risk_factor
RunStrategy(module, data) ==
    [i \in 1..Len(data) |->
        [profit |-> Get(data[i], "expected_return") * module.code.pf * module.code.rf,
         expected_return |-> Get(data[i], "expected_return")]]

NoEvaluation == [ok |-> FALSE, performance |-> NoPerformance]

\* a plausible slip: the result of new_strategy is not checked to be a list,
\* and what is no list is assessed as an empty one
EvaluateFeatureUnchecked(module, eval_data) ==
    IF ~HasNewStrategy(module) THEN NoEvaluation
    ELSE CASE module.code.kind = "raises" -> NoEvaluation
           [] module.code.kind = "nonlist" -> [ok |-> TRUE, performance |-> ZeroPerformance]
           [] module.code.kind = "ints" ->
                IF eval_data = <<>> THEN [ok |-> TRUE, performance |-> ZeroPerformance]
                ELSE NoEvaluation
           [] OTHER ->
                [ok |-> TRUE,
                 performance |-> AssessPerformance(RunStrategy(module, eval_data))]

\* a plausible slip: a fault of new_strategy is taken for an empty result
EvaluateFeatureFaultAsEmpty(module, eval_data) ==
    IF ~HasNewStrategy(module) THEN NoEvaluation
    ELSE CASE module.code.kind = "raises" -> [ok |-> TRUE, performance |-> ZeroPerformance]
           [] module.code.kind = "nonlist" -> NoEvaluation
           [] module.code.kind = "ints" ->
                IF eval_data = <<>> THEN [ok |-> TRUE, performance |-> ZeroPerformance]
                ELSE NoEvaluation
           [] OTHER ->
                [ok |-> TRUE,
                 performance |-> AssessPerformance(RunStrategy(module, eval_data))]

\* evaluate_feature(module, eval_data) up to its record update: whether it
\* has a performance to record, and which.  It has none when the module has
\* no new_strategy (lines 101 to 103), when new_strategy raises, when its
\* result is no list (line 109), and when assess_performance raises on a
\* list whose elements have no get method; an empty list is assessed before
\* any element is read (line 142).
EvaluateFeature(module, eval_data) ==
    IF ~HasNewStrategy(module) THEN NoEvaluation
    ELSE CASE module.code.kind = "raises" -> NoEvaluation
           [] module.code.kind = "nonlist" -> NoEvaluation
           [] module.code.kind = "ints" ->
                IF eval_data = <<>> THEN [ok |-> TRUE, performance |-> ZeroPerformance]
                ELSE NoEvaluation
           [] OTHER ->
                [ok |-> TRUE,
                 performance |-> AssessPerformance(RunStrategy(module, eval_data))]

\* a plausible slip: the map is built anew with the one record
RecordPerformanceAlone(records, name, performance) ==
    [n \in {name} |-> performance]

\* self.performance_records[module.__name__] = {...}
RecordPerformance(records, name, performance) ==
    [n \in DOMAIN records \cup {name} |-> IF n = name THEN performance ELSE records[n]]

\* success_rate < 0.6
RateBelow(rate, tenths) == rate.num * 10 < tenths * rate.den

\* a plausible slip: the rate compared as a percentage, against 60
NeedsImprovementPercent(performance) ==
    \/ performance.profitability < 0
    \/ performance.success_rate.num < 60 * performance.success_rate.den
    \/ performance.max_drawdown < (-1000) * Scale

\* any(performance.get(k, ...) < v for k, v in thresholds.items()) with
\* thresholds = {'profitability': 0, 'success_rate': 0.6, 'max_drawdown': -1000}
NeedsImprovement(performance) ==
    \/ performance.profitability < 0
    \/ RateBelow(performance.success_rate, 6)
    \/ performance.max_drawdown < (-1000) * Scale

\* generate_improved_feature: the text starts and ends with a line break
GenerateImprovedFeature(previous_performance) ==
    Scaled(IF previous_performance.profitability < 0 THEN 11 ELSE 10,
           IF previous_performance.max_drawdown < (-500) * Scale THEN 9 ELSE 10,
           TRUE)

\* f"{feature_name}_v{int(time.time())}"
NewFeatureName(feature_name, t) == feature_name \o SEP \o StrOf(t)

\* self_improve(feature_name, eval_data), with the load_feature,
\* evaluate_feature and write_feature calls it makes.  ret = <<>> is None.
SelfImprove(feature_name, eval_data) ==
    LET module == LoadFeature(files, feature_name)
        evaluation == EvaluateFeature(module, eval_data)
        performance == evaluation.performance
        done(ret, evaluated, perf) ==
            fsCall' = [NoCall EXCEPT !.op = "improve", !.name = feature_name,
                                     !.data = eval_data, !.ret = ret,
                                     !.evaluated = evaluated, !.perf = perf,
                                     !.before = files, !.at = now]
    IN /\ Len(feature_name) <= MaxNameLen
       /\ IF ~module.loaded \/ ~evaluation.ok
          THEN /\ done(<<>>, FALSE, NoPerformance)
               /\ UNCHANGED <<files, performance_records>>
          ELSE /\ performance_records' =
                    RecordPerformance(performance_records, feature_name, performance)
               /\ IF NeedsImprovement(performance)
                  THEN \E o \in WriteOutcomes(files, NewFeatureName(feature_name, now),
                                       GenerateImprovedFeature(performance), max_versions) :
                            /\ files' = o.files
                            /\ done(IF o.ok THEN NewFeatureName(feature_name, now) ELSE <<>>,
                                    TRUE, performance)
                  ELSE /\ done(<<>>, TRUE, performance)
                       /\ UNCHANGED files
       /\ nCalls' = CountCall(nCalls)
       /\ UNCHANGED <<max_versions, now, writeLog, writer, assessVars, lockVars, mgrVars,
                      regVars>>

\* a call load_feature(feature_name); ok says whether a module came back
LoadCall(feature_name) ==
    /\ fsCall' = [NoCall EXCEPT !.op = "load", !.name = feature_name,
                                !.ok = LoadFeature(files, feature_name).loaded,
                                !.before = files]
    /\ nCalls' = CountCall(nCalls)
    /\ UNCHANGED <<max_versions, files, performance_records, now, writeLog,
                   assessVars, cycVars, lockVars, mgrVars, regVars>>

\* module = load_feature(feature_name), and for a module that came back
\* evaluate_feature(module, eval_data); evaluated says whether the call
\* returned a performance, (None, None) otherwise
EvaluateCall(feature_name, eval_data) ==
    LET module == LoadFeature(files, feature_name)
        evaluation == EvaluateFeature(module, eval_data)
    IN /\ module.loaded
       /\ performance_records' =
            IF evaluation.ok
            THEN RecordPerformance(performance_records, feature_name,
                                   evaluation.performance)
            ELSE performance_records
       /\ fsCall' = [NoCall EXCEPT !.op = "evaluate", !.name = feature_name,
                                   !.code = module.code, !.data = eval_data,
                                   !.ok = TRUE, !.evaluated = evaluation.ok,
                                   !.perf = evaluation.performance,
                                   !.before = files]
       /\ nCalls' = CountCall(nCalls)
       /\ UNCHANGED <<max_versions, files, now, writeLog, assessVars, cycVars, lockVars, mgrVars, regVars>>

(***************************************************************************)
(* Construction and the continuous evaluation cycle.  A constructor        *)
(* argument is a Python value with its type; writer says how far           *)
(* AdvancedFeatureWriter(plugin_dir, max_versions) came:                   *)
(*   state    "none", "raised" (ValueError) or "constructed"               *)
(*   dir      whether os.makedirs has made the plugin directory            *)
(*   arg      the max_versions of the last construction                    *)
(*   refused  whether a construction has raised                            *)
(* cycle is a call of continuous_evaluation_cycle taken step by step:      *)
(*   pc        "none" (not called), "list" (at the top of while True),     *)
(*             "feature" (in the for loop, before self_improve of          *)
(*             features[idx]), "sleep" (in time.sleep), "returned",        *)
(*             "raised" (ValueError)                                       *)
(*   thread    "main" when the main thread made the call, "own" when a     *)
(*             thread started for it did                                   *)
(*   calls     the names self_improve was called with in this iteration    *)
(*   iter      the iterations completed                                    *)
(*   interrupted  whether a KeyboardInterrupt has been delivered to the    *)
(*             process                                                     *)
(***************************************************************************)
PyInt(n) == [py |-> "int", value |-> n]

\* the float n.0
PyFloat(n) == [py |-> "float", value |-> n]

ValidMaxVersionsNonNegative(v) == v.py = "int" /\ v.value >= 0

\* isinstance(max_versions, int) and max_versions > 0
ValidMaxVersions(v) == v.py = "int" /\ v.value > 0

NoWriter == [state |-> "none", dir |-> FALSE, arg |-> PyInt(0), refused |-> FALSE]

\* the writer after AdvancedFeatureWriter(plugin_dir, k) with a valid k
Constructed(k) == [state |-> "constructed", dir |-> TRUE, arg |-> PyInt(k), refused |-> FALSE]

\* AdvancedFeatureWriter(plugin_dir, max_versions=arg) where plugin_dir
\* does not exist yet
Construct(arg) ==
    /\ writer.state # "constructed"
    /\ IF ValidMaxVersions(arg)
       THEN /\ writer' = [writer EXCEPT !.state = "constructed", !.dir = TRUE, !.arg = arg]
            /\ max_versions' = arg.value
            /\ performance_records' = <<>>
       ELSE /\ writer' = [writer EXCEPT !.state = "raised", !.arg = arg, !.refused = TRUE]
            /\ UNCHANGED <<max_versions, performance_records>>
    /\ UNCHANGED <<files, now, fsCall, writeLog, nCalls, cycle, assessVars, lockVars,
                   mgrVars, regVars>>

NoCycle ==
    [pc |-> "none", thread |-> "main", interval |-> 0, data |-> <<>>,
     features |-> <<>>, idx |-> 0, calls |-> <<>>, iter |-> 0, interrupted |-> FALSE]

\* [f[:-3] for f in listing if f.endswith('.py')]
FeaturesOf(listing) ==
    LET stored == SelectSeq(listing, LAMBDA f : EndsWith(f, PY))
    IN [i \in 1..Len(stored) |-> DropLast3(stored[i])]

\* continuous_evaluation_cycle(eval_data, interval) is called, on the main
\* thread or on a thread of its own: the check of the interval
StartCycle(eval_data, interval, thread) ==
    /\ writer.state = "constructed"
    /\ cycle.pc = "none"
    /\ cycle' = [cycle EXCEPT !.pc = IF interval <= 0 THEN "raised" ELSE "list",
                              !.thread = thread, !.interval = interval,
                              !.data = eval_data]
    /\ UNCHANGED <<writer, storeVars, assessVars, lockVars, mgrVars, regVars>>

\* the top of the loop: the features of this iteration, one for every
\* stored file, in the order os.listdir gives them
CycleList ==
    /\ cycle.pc = "list"
    /\ \E listing \in ListDir(files) :
        cycle' = [cycle EXCEPT !.features = FeaturesOf(listing),
                               !.calls = <<>>,
                               !.idx = 1,
                               !.pc = IF FeaturesOf(listing) = <<>> THEN "sleep"
                                      ELSE "feature"]
    /\ UNCHANGED <<writer, storeVars, assessVars, lockVars, mgrVars, regVars>>

CycleFeatureStopsOnFailure ==
    /\ cycle.pc = "feature"
    /\ SelfImprove(cycle.features[cycle.idx], cycle.data)
    /\ cycle' = [cycle EXCEPT !.calls = Append(@, cycle.features[cycle.idx]),
                              !.idx = @ + 1,
                              !.pc = IF ~LoadFeature(files, cycle.features[cycle.idx]).loaded
                                     THEN "raised"
                                     ELSE IF cycle.idx < Len(cycle.features)
                                          THEN "feature" ELSE "sleep"]

\* the body of the for loop for features[idx]: self_improve, whose result
\* decides only what is logged
CycleFeature ==
    /\ cycle.pc = "feature"
    /\ SelfImprove(cycle.features[cycle.idx], cycle.data)
    /\ cycle' = [cycle EXCEPT !.calls = Append(@, cycle.features[cycle.idx]),
                              !.idx = @ + 1,
                              !.pc = IF cycle.idx < Len(cycle.features)
                                     THEN "feature" ELSE "sleep"]

\* time.sleep(interval) returns; the clock has moved on by then, by less
\* than a second for a short interval
CycleSleep ==
    /\ cycle.pc = "sleep"
    /\ cycle' = [cycle EXCEPT !.pc = "list", !.iter = MinOf({@ + 1, MaxIters})]
    /\ now' \in {now, MinOf({now + 1, MaxClock})}
    /\ UNCHANGED <<max_versions, files, performance_records, fsCall, writeLog, nCalls,
                   writer, assessVars, lockVars, mgrVars, regVars>>

\* a KeyboardInterrupt: Python raises it in the main thread, so the handler
\* of the cycle runs only when the main thread is the one in the cycle
Interrupt ==
    /\ cycle.pc \in {"list", "feature", "sleep"}
    /\ ~cycle.interrupted
    /\ cycle' = [cycle EXCEPT !.interrupted = TRUE,
                              !.pc = IF cycle.thread = "main" THEN "returned" ELSE @]
    /\ UNCHANGED <<writer, storeVars, assessVars, lockVars, mgrVars, regVars>>

(***************************************************************************)
(* Threads in the store.  write_feature and evaluate_feature are taken     *)
(* step by step, a step ending where another thread may run in between.    *)
(* lock is Free or the thread that holds self._lock; tpc gives for each    *)
(* thread the call it is in:                                               *)
(*   pc    "idle"; in write_feature "w_acquire" (before with self._lock),  *)
(*         "w_write" (in the with block), "w_cleanup" (before              *)
(*         _cleanup_old_versions lists the directory), "w_remove" (before  *)
(*         it removes the old versions); in evaluate_feature "e_run"       *)
(*         (before new_strategy is called), "e_assess" (before             *)
(*         assess_performance), "e_acquire" (before with self._lock),      *)
(*         "e_update" (in the with block)                                  *)
(*   name, code, data   the feature, its code and the evaluation data      *)
(*   perf  the performance assess_performance returned                     *)
(*   old   the files the cleanup is about to remove                        *)
(***************************************************************************)
\* the value of lock when no thread holds it; threads are numbered from 1
Free == 0

IdleThread ==
    [pc |-> "idle", name |-> <<>>, code |-> Broken, data |-> <<>>,
     perf |-> NoPerformance, old |-> {}]

\* the positions inside a with self._lock block
InLock == {"w_write", "e_update"}

\* write_feature(feature_name, feature_code) is called by thread t
WriteEnter(t, feature_name, feature_code) ==
    /\ tpc[t].pc = "idle"
    /\ tpc' = [tpc EXCEPT ![t] = [IdleThread EXCEPT !.pc = "w_acquire",
                                                    !.name = feature_name,
                                                    !.code = feature_code]]
    /\ nCalls' = CountCall(nCalls)
    /\ UNCHANGED <<max_versions, files, performance_records, now, fsCall, writeLog, lock,
                   cycVars, assessVars, mgrVars, regVars>>

\* evaluate_feature(module, eval_data) is called by thread t with a module
\* that load_feature returned; without new_strategy it returns at once
EvaluateEnter(t, feature_name, eval_data) ==
    LET module == LoadFeature(files, feature_name)
    IN /\ tpc[t].pc = "idle"
       /\ module.loaded
       /\ tpc' = [tpc EXCEPT ![t] =
                    IF HasNewStrategy(module)
                    THEN [IdleThread EXCEPT !.pc = "e_run", !.name = feature_name,
                                            !.code = module.code, !.data = eval_data]
                    ELSE IdleThread]
       /\ nCalls' = CountCall(nCalls)
       /\ UNCHANGED <<max_versions, files, performance_records, now, fsCall, writeLog, lock,
                      cycVars, assessVars, mgrVars, regVars>>

AcquireUnchecked(t) ==
    /\ tpc[t].pc \in {"w_acquire", "e_acquire"}
    /\ lock' = t
    /\ tpc' = [tpc EXCEPT ![t].pc = IF @ = "w_acquire" THEN "w_write" ELSE "e_update"]
    /\ UNCHANGED <<storeVars, cycVars, assessVars, mgrVars, regVars>>

\* with self._lock: thread t enters once the lock is free
Acquire(t) ==
    /\ tpc[t].pc \in {"w_acquire", "e_acquire"}
    /\ lock = Free
    /\ lock' = t
    /\ tpc' = [tpc EXCEPT ![t].pc = IF @ = "w_acquire" THEN "w_write" ELSE "e_update"]
    /\ UNCHANGED <<storeVars, cycVars, assessVars, mgrVars, regVars>>

\* the block of write_feature: the file is written, the lock released
WriteFile(t) ==
    /\ tpc[t].pc = "w_write"
    /\ files' = PutFile(files, tpc[t].name, tpc[t].code)
    /\ lock' = Free
    /\ tpc' = [tpc EXCEPT ![t].pc = "w_cleanup"]
    /\ UNCHANGED <<max_versions, performance_records, now, fsCall, writeLog, nCalls,
                   cycVars, assessVars, mgrVars, regVars>>

\* _cleanup_old_versions lists the directory and sorts the versions; a key
\* that is no number ends write_feature in its handler
CleanupList(t) ==
    /\ tpc[t].pc = "w_cleanup"
    /\ IF CleanupRaises(files, tpc[t].name)
       THEN tpc' = [tpc EXCEPT ![t] = IdleThread]
       ELSE \E D \in CleanupDeletions(files, tpc[t].name, max_versions) :
                tpc' = [tpc EXCEPT ![t].pc = "w_remove", ![t].old = D]
    /\ UNCHANGED <<storeVars, lock, cycVars, assessVars, mgrVars, regVars>>

\* the old versions are removed; a file that is gone by now is logged
CleanupRemove(t) ==
    /\ tpc[t].pc = "w_remove"
    /\ files' = RemoveFiles(files, tpc[t].old)
    /\ tpc' = [tpc EXCEPT ![t] = IdleThread]
    /\ UNCHANGED <<max_versions, performance_records, now, fsCall, writeLog, nCalls, lock,
                   cycVars, assessVars, mgrVars, regVars>>

\* results = module.new_strategy(eval_data) and the check that it is a list
EvaluateRun(t) ==
    /\ tpc[t].pc = "e_run"
    /\ tpc' = [tpc EXCEPT ![t] = IF tpc[t].code.kind \in {"raises", "nonlist"}
                                 THEN IdleThread
                                 ELSE [@ EXCEPT !.pc = "e_assess"]]
    /\ UNCHANGED <<storeVars, lock, cycVars, assessVars, mgrVars, regVars>>

\* performance = self.assess_performance(results)
EvaluateAssess(t) ==
    LET evaluation == EvaluateFeature([loaded |-> TRUE, code |-> tpc[t].code], tpc[t].data)
    IN /\ tpc[t].pc = "e_assess"
       /\ tpc' = [tpc EXCEPT ![t] = IF evaluation.ok
                                    THEN [@ EXCEPT !.pc = "e_acquire",
                                                   !.perf = evaluation.performance]
                                    ELSE IdleThread]
       /\ UNCHANGED <<storeVars, lock, cycVars, assessVars, mgrVars, regVars>>

\* the block of evaluate_feature: the record is set, the lock released
EvaluateUpdate(t) ==
    /\ tpc[t].pc = "e_update"
    /\ performance_records' =
            RecordPerformance(performance_records, tpc[t].name, tpc[t].perf)
    /\ lock' = Free
    /\ tpc' = [tpc EXCEPT ![t] = IdleThread]
    /\ UNCHANGED <<max_versions, files, now, fsCall, writeLog, nCalls, cycVars,
                   assessVars, mgrVars, regVars>>

(***************************************************************************)
(* The agent registry.  A call of control_agent is taken step by step, so  *)
(* that the thread it starts runs beside it; a thread is a record          *)
(*   name   the agent name _run_agent was given                            *)
(*   state  "started", "running" (inside instance.run()), "finished"       *)
(*          (the thread returned), "faulted" (the handler of _run_agent    *)
(*          ran)                                                           *)
(*   cls    the class of the instance it holds, "none" before it has       *)
(*          constructed one and after it has ended                         *)
(* An agent class is one of: "Steady" (neither its constructor nor run     *)
(* raises), "Faulty" (the constructor or run may raise), "NoRun" (it has   *)
(* no run method).                                                         *)
(***************************************************************************)
UpperCase == <<"A", "E", "O", "P", "R", "S", "T", "U">>

LowerCase == <<"a", "e", "o", "p", "r", "s", "t", "u">>

\* c.lower() for one character
LowerChar(c) ==
    IF \E i \in 1..Len(UpperCase) : UpperCase[i] = c
    THEN LowerCase[CHOOSE i \in 1..Len(UpperCase) : UpperCase[i] = c]
    ELSE c

RECURSIVE StripSpaces(_)
\* action.strip()
StripSpaces(s) ==
    IF s = <<>> THEN s
    ELSE IF Head(s) = " " THEN StripSpaces(Tail(s))
    ELSE IF s[Len(s)] = " " THEN StripSpaces(SubSeq(s, 1, Len(s) - 1))
    ELSE s

\* action.strip().lower()
Normalize(action) ==
    LET t == StripSpaces(action) IN [i \in 1..Len(t) |-> LowerChar(t[i])]

START == <<"s", "t", "a", "r", "t">>
STOP == <<"s", "t", "o", "p">>
RESTART == <<"r", "e", "s", "t", "a", "r", "t">>

\* a plausible slip: the last branch taken for whatever is not start or
\* restart, so that an unknown action is treated as stop
BranchStopByDefault(action) ==
    IF Normalize(action) = START THEN "start"
    ELSE IF Normalize(action) = RESTART THEN "restart"
    ELSE "stop"

\* the branch of the if / elif chain that control_agent takes
Branch(action) ==
    IF Normalize(action) = START THEN "start"
    ELSE IF Normalize(action) = STOP THEN "stop"
    ELSE IF Normalize(action) = RESTART THEN "restart"
    ELSE "unknown"

\* a plausible slip: the already-running check left out
AlreadyRunningNever(name) == FALSE

\* AGENT_STATUS.get(name) == "running"
AlreadyRunning(name) ==
    name \in DOMAIN AGENT_STATUS /\ AGENT_STATUS[name] = "running"

\* d[k] = v
Assign(d, k, v) == [x \in DOMAIN d \cup {k} |-> IF x = k THEN v ELSE d[x]]

\* get_registered_agents()[name]["status"]
ListedStatus(status, name) == IF name \in DOMAIN status THEN status[name] ELSE "unknown"

\* the statuses listed along register, start, stop, restart: the listing
\* after a call is added when the call is the next one of that sequence; a
\* fault of one of the agent's threads ends the sequence
ScenarioOps == <<"register", "start", "stop", "restart">>

Observe(obs, op, listed) ==
    IF op = "register" THEN <<listed>>
    ELSE IF Len(obs) \in 1..3 /\ ScenarioOps[Len(obs) + 1] = op THEN Append(obs, listed)
    ELSE <<>>

\* the bookkeeping of a call that returns having acted on agent name: the
\* call is the last one on name, and the listing after it is taken
Completed(name, op, status) ==
    /\ lastStart' = [lastStart EXCEPT ![name] = IF op = "start" THEN "yes" ELSE "no"]
    /\ observed' = [observed EXCEPT ![name] = Observe(@, op, ListedStatus(status, name))]

\* a plausible slip: the status is set only for a name not registered before
RegisterAgentKeepsStatus(c, name, cls, metadata) ==
    /\ pc[c] = "idle"
    /\ AGENT_REGISTRY' = Assign(AGENT_REGISTRY, name, [class |-> cls, metadata |-> metadata])
    /\ AGENT_STATUS' = IF name \in DOMAIN AGENT_STATUS THEN AGENT_STATUS
                       ELSE Assign(AGENT_STATUS, name, "stopped")
    /\ Completed(name, "register", AGENT_STATUS')
    /\ UNCHANGED <<AGENT_THREADS, threads, pc, call, storeVars, assessVars, cycVars, lockVars, mgrVars>>

\* @register_agent(agent_name, **metadata) applied to a class
RegisterAgent(c, name, cls, metadata) ==
    /\ pc[c] = "idle"
    /\ AGENT_REGISTRY' = Assign(AGENT_REGISTRY, name, [class |-> cls, metadata |-> metadata])
    /\ AGENT_STATUS' = Assign(AGENT_STATUS, name, "stopped")
    /\ Completed(name, "register", AGENT_STATUS')
    /\ UNCHANGED <<AGENT_THREADS, threads, pc, call, storeVars, assessVars, cycVars, lockVars, mgrVars>>

\* a caller calls control_agent(name, action)
Invoke(c, name, action) ==
    /\ pc[c] = "idle"
    /\ pc' = [pc EXCEPT ![c] = "entry"]
    /\ call' = [call EXCEPT ![c] = [name |-> name, action |-> action,
                                    ret |-> "pending", thread |-> 0]]
    /\ UNCHANGED <<AGENT_REGISTRY, AGENT_STATUS, AGENT_THREADS, threads, lastStart,
                   observed, storeVars, assessVars, cycVars, lockVars, mgrVars>>

\* what a caller holds once its call has returned: the result
Returned(ret) == [name |-> "", action |-> <<>>, ret |-> ret, thread |-> 0]

\* the call returns ret without having touched the registry's maps
ReturnOnly(c, ret) ==
    /\ pc' = [pc EXCEPT ![c] = "idle"]
    /\ call' = [call EXCEPT ![c] = Returned(ret)]
    /\ UNCHANGED <<AGENT_REGISTRY, AGENT_STATUS, AGENT_THREADS, threads>>

\* the start branch up to the status check (lines 40 to 42)
StartCheck(c, op) ==
    IF AlreadyRunning(call[c].name)
    THEN /\ ReturnOnly(c, "already_running")
         /\ Completed(call[c].name, op, AGENT_STATUS)
    ELSE /\ pc' = [pc EXCEPT ![c] = "spawn"]
         /\ UNCHANGED <<AGENT_REGISTRY, AGENT_STATUS, AGENT_THREADS, threads, call,
                        lastStart, observed>>

\* a plausible slip: stop also drops the thread recorded for the agent
StopBranchDropsThread(c, name) ==
    /\ AGENT_STATUS' = Assign(AGENT_STATUS, name, "stopped")
    /\ AGENT_THREADS' = [x \in DOMAIN AGENT_THREADS \ {name} |-> AGENT_THREADS[x]]
    /\ pc' = [pc EXCEPT ![c] = "idle"]
    /\ call' = [call EXCEPT ![c] = Returned("marked_stopped")]
    /\ Completed(name, "stop", AGENT_STATUS')
    /\ UNCHANGED <<AGENT_REGISTRY, threads>>

\* the stop branch: AGENT_STATUS[name] = "stopped" and the return
StopBranch(c, name) ==
    /\ AGENT_STATUS' = Assign(AGENT_STATUS, name, "stopped")
    /\ pc' = [pc EXCEPT ![c] = "idle"]
    /\ call' = [call EXCEPT ![c] = Returned("marked_stopped")]
    /\ Completed(name, "stop", AGENT_STATUS')
    /\ UNCHANGED <<AGENT_REGISTRY, AGENT_THREADS, threads>>

\* a plausible slip: the restart branch goes into its nested start without
\* marking the agent stopped first
RestartBranchKeepsStatus(c, name) ==
    /\ pc' = [pc EXCEPT ![c] = "reenter"]
    /\ UNCHANGED <<AGENT_REGISTRY, AGENT_STATUS, AGENT_THREADS, threads, call,
                   lastStart, observed>>

\* a plausible slip: the restart branch without its nested start, so that
\* restart only marks the agent stopped
RestartBranchOnlyStops(c, name) ==
    /\ AGENT_STATUS' = Assign(AGENT_STATUS, name, "stopped")
    /\ pc' = [pc EXCEPT ![c] = "idle"]
    /\ call' = [call EXCEPT ![c] = Returned("marked_stopped")]
    /\ Completed(name, "restart", AGENT_STATUS')
    /\ UNCHANGED <<AGENT_REGISTRY, AGENT_THREADS, threads>>

\* the restart branch: AGENT_STATUS[name] = "stopped", then on into the
\* nested control_agent(name, "start")
RestartBranch(c, name) ==
    /\ AGENT_STATUS' = Assign(AGENT_STATUS, name, "stopped")
    /\ pc' = [pc EXCEPT ![c] = "reenter"]
    /\ UNCHANGED <<AGENT_REGISTRY, AGENT_THREADS, threads, call, lastStart, observed>>

\* control_agent from its entry to the first point where it returns or is
\* about to start a thread (lines 35 to 42, 49 to 51, 53 to 54, 57 to 58)
Enter(c) ==
    /\ pc[c] = "entry"
    /\ LET name == call[c].name
           branch == Branch(call[c].action)
       IN IF name \notin DOMAIN AGENT_REGISTRY
          THEN /\ ReturnOnly(c, "not_found")
               /\ UNCHANGED <<lastStart, observed>>
          ELSE CASE branch = "start" -> StartCheck(c, "start")
                 [] branch = "stop" -> StopBranch(c, name)
                 [] branch = "restart" -> RestartBranch(c, name)
                 [] OTHER ->
                        /\ ReturnOnly(c, "unknown_action")
                        /\ UNCHANGED <<lastStart, observed>>
    /\ UNCHANGED <<storeVars, assessVars, cycVars, lockVars, mgrVars>>

\* the nested control_agent(name, "start") of the restart branch, up to its
\* status check
Reenter(c) ==
    /\ pc[c] = "reenter"
    /\ StartCheck(c, "restart")
    /\ UNCHANGED <<storeVars, assessVars, cycVars, lockVars, mgrVars>>

\* thread = threading.Thread(target=_run_agent, ...); thread.start()
Spawn(c) ==
    /\ pc[c] = "spawn"
    /\ Len(threads) < MaxThreads
    /\ threads' = Append(threads, [name |-> call[c].name, state |-> "started",
                                   cls |-> "none"])
    /\ call' = [call EXCEPT ![c].thread = Len(threads) + 1]
    /\ pc' = [pc EXCEPT ![c] = "record"]
    /\ UNCHANGED <<AGENT_REGISTRY, AGENT_STATUS, AGENT_THREADS, lastStart,
                   observed, storeVars, assessVars, cycVars, lockVars, mgrVars>>

\* AGENT_THREADS[name] = thread
Record(c) ==
    /\ pc[c] = "record"
    /\ AGENT_THREADS' = Assign(AGENT_THREADS, call[c].name, call[c].thread)
    /\ pc' = [pc EXCEPT ![c] = "mark"]
    /\ UNCHANGED <<AGENT_REGISTRY, AGENT_STATUS, threads, call, lastStart,
                   observed, storeVars, assessVars, cycVars, lockVars, mgrVars>>

\* AGENT_STATUS[name] = "running"; return "... started."
Mark(c) ==
    /\ pc[c] = "mark"
    /\ AGENT_STATUS' = Assign(AGENT_STATUS, call[c].name, "running")
    /\ pc' = [pc EXCEPT ![c] = "idle"]
    /\ call' = [call EXCEPT ![c] = Returned("started")]
    /\ Completed(call[c].name, Branch(call[c].action), AGENT_STATUS')
    /\ UNCHANGED <<AGENT_REGISTRY, AGENT_THREADS, threads, storeVars, assessVars, cycVars, lockVars, mgrVars>>

\* the handler of _run_agent: AGENT_STATUS[name] = "error"
Faults(t) ==
    /\ threads' = [threads EXCEPT ![t].state = "faulted", ![t].cls = "none"]
    /\ AGENT_STATUS' = Assign(AGENT_STATUS, threads[t].name, "error")
    /\ lastStart' = [lastStart EXCEPT ![threads[t].name] =
                        IF @ = "no" THEN "no" ELSE "faulted"]
    /\ observed' = [observed EXCEPT ![threads[t].name] = <<>>]
    /\ UNCHANGED <<AGENT_REGISTRY, AGENT_THREADS, pc, call>>

\* _run_agent from its start to the call of instance.run() (lines 65 to 73),
\* or to its end when the class has no run method or the constructor raises
ThreadConstruct(t) ==
    /\ threads[t].state = "started"
    /\ LET cls == AGENT_REGISTRY[threads[t].name].class
       IN \/ /\ cls \in {"Steady", "Faulty"}
             /\ threads' = [threads EXCEPT ![t].state = "running", ![t].cls = cls]
             /\ UNCHANGED <<AGENT_REGISTRY, AGENT_STATUS, AGENT_THREADS, pc, call,
                            lastStart, observed>>
          \/ /\ cls = "NoRun"
             /\ threads' = [threads EXCEPT ![t].state = "finished"]
             /\ UNCHANGED <<AGENT_REGISTRY, AGENT_STATUS, AGENT_THREADS, pc, call,
                            lastStart, observed>>
          \/ /\ cls = "Faulty"
             /\ Faults(t)
    /\ UNCHANGED <<storeVars, assessVars, cycVars, lockVars, mgrVars>>

\* instance.run() returns
ThreadReturn(t) ==
    /\ threads[t].state = "running"
    /\ threads' = [threads EXCEPT ![t].state = "finished", ![t].cls = "none"]
    /\ UNCHANGED <<AGENT_REGISTRY, AGENT_STATUS, AGENT_THREADS, pc, call,
                   lastStart, observed, storeVars, assessVars, cycVars, lockVars, mgrVars>>

\* instance.run() raises
ThreadFault(t) ==
    /\ threads[t].state = "running"
    /\ threads[t].cls = "Faulty"
    /\ Faults(t)
    /\ UNCHANGED <<storeVars, assessVars, cycVars, lockVars, mgrVars>>

(***************************************************************************)
(* The agent manager (src/core/agent_manager.py).  Python values that the  *)
(* manager may try to call carry their type: a class can be called, a dict *)
(* or None cannot.  A thread recorded by the manager is a record          *)
(*   kind   the kind of the instance whose run method it runs              *)
(*   state  "alive" or "exited"                                            *)
(*   asked  whether the instance's stop method has been called             *)
(* Instance kinds: "Looper" (run loops until stop() is called), "Deaf"     *)
(* (stop() returns, run never exits), "Daemon" (no stop method, run never  *)
(* exits), "Oneshot" (no stop method, run returns by itself), "BadStop"    *)
(* (stop() raises).                                                        *)
(***************************************************************************)
\* get_registered_agents(): name -> {"status": ..., "metadata": ...}
GetRegisteredAgents(registry, status) ==
    [name \in DOMAIN registry |->
        [status |-> ListedStatus(status, name),
         metadata |-> registry[name].metadata]]

PyNone == [py |-> "None", value |-> <<>>]

PyDict(d) == [py |-> "dict", value |-> d]

\* agents.get(agent_id) on the listing of the registry
AgentsGet(id) ==
    LET agents == GetRegisteredAgents(AGENT_REGISTRY, AGENT_STATUS)
    IN IF id \in DOMAIN agents THEN PyDict(agents[id]) ELSE PyNone

\* bool(v): None and an empty dict are false
Truthy(v) == v.py # "None" /\ (v.py = "dict" => DOMAIN v.value # {})

\* whether v(**kwargs) can be evaluated at all
Callable(v) == v.py = "class"

\* del d[k]
Remove(d, k) == [x \in DOMAIN d \ {k} |-> d[x]]

HasStop(kind) == kind \in {"Looper", "Deaf", "BadStop"}

StopRaises(kind) == kind = "BadStop"

\* whether the run method of the thread's instance can return now
MayExit(w) == w.kind \in {"Oneshot", "BadStop"} \/ (w.kind = "Looper" /\ w.asked)

\* threading.Thread(target=instance.run, ...), started
NewWorker(kind) == [kind |-> kind, state |-> "alive", asked |-> FALSE]

\* thread.join(timeout=5)
JoinTimeout == 5

NoManagerCall ==
    [op |-> "none", id |-> "", outcome |-> "none", value |-> "", waited |-> 0,
     joined |-> FALSE]

\* a manager call that has ended: it returned value, or raised value
Ended(op, id, outcome, value, joined) ==
    [op |-> op, id |-> id, outcome |-> outcome, value |-> value, waited |-> 0,
     joined |-> joined]

\* the keys of a dict that held keys, in order, once it holds d: a deleted
\* key leaves the order, a new key goes to the end
KeysAfter(keys, d) ==
    LET kept == SelectSeq(keys, LAMBDA k : k \in DOMAIN d)
        new == DOMAIN d \ SeqToSet(keys)
    IN IF new = {} THEN kept ELSE Append(kept, CHOOSE k \in new : TRUE)

\* the keys of a dict that held keys, in order, after del d[k]
KeyDel(keys, k) == SelectSeq(keys, LAMBDA x : x # k)

\* no get_status() call has returned yet
NoStatus == [taken |-> FALSE, quiet |-> TRUE, value |-> <<>>, tracked |-> <<>>]

\* AgentManager()
MgrInit ==
    /\ instances = <<>>
    /\ manager_threads = <<>>
    /\ workers = <<>>
    /\ mpc = "idle"
    /\ mcall = NoManagerCall
    /\ instance_keys = <<>>
    /\ thread_keys = <<>>
    /\ mthread = <<>>
    /\ got_status = NoStatus

\* start_agent(agent_id) on the maps inst and thr with the threads wk: the
\* maps and threads after it, and how it ended
StartOutcome(id, inst, thr, wk) ==
    LET agent_class == AgentsGet(id)
    IN IF ~Truthy(agent_class)
       THEN [instances |-> inst, manager_threads |-> thr, workers |-> wk,
             outcome |-> "raised", value |-> "ValueError"]
       ELSE IF ~Callable(agent_class)
       THEN [instances |-> inst, manager_threads |-> thr, workers |-> wk,
             outcome |-> "raised", value |-> "TypeError"]
       ELSE [instances |-> Assign(inst, id, [kind |-> agent_class.value]),
             manager_threads |-> Assign(thr, id, Len(wk) + 1),
             workers |-> Append(wk, NewWorker(agent_class.value)),
             outcome |-> "returned", value |-> "started"]

\* a call start_agent(agent_id)
StartAgent(id) ==
    /\ mpc = "idle"
    /\ LET o == StartOutcome(id, instances, manager_threads, workers)
       IN /\ instances' = o.instances
          /\ manager_threads' = o.manager_threads
          /\ workers' = o.workers
          /\ instance_keys' = KeysAfter(instance_keys, instances')
          /\ thread_keys' = KeysAfter(thread_keys, manager_threads')
          /\ mcall' = Ended("start_agent", id, o.outcome, o.value, FALSE)
    /\ UNCHANGED <<mpc, mthread, got_status, storeVars, assessVars, cycVars, lockVars, regVars>>

\* the two maps are plain attributes of the manager: a client that holds an
\* instance of its own records it and its started thread under agent_id, as
\* lines 18 to 21 do
Adopt(id, kind) ==
    /\ mpc = "idle"
    /\ Len(workers) < MaxWorkers
    /\ workers' = Append(workers, NewWorker(kind))
    /\ instances' = Assign(instances, id, [kind |-> kind])
    /\ manager_threads' = Assign(manager_threads, id, Len(workers) + 1)
    /\ instance_keys' = KeysAfter(instance_keys, instances')
    /\ thread_keys' = KeysAfter(thread_keys, manager_threads')
    /\ mcall' = NoManagerCall
    /\ UNCHANGED <<mpc, mthread, got_status, storeVars, assessVars, cycVars, lockVars, regVars>>

\* stop_agent(agent_id) up to thread.join (lines 25 to 29, 34), as called
\* directly (op "stop_agent") or by restart_agent (op "restart_agent")
StopEnter(op, id) ==
    /\ mpc = "idle"
    /\ id \in DOMAIN instances
    /\ LET kind == instances[id].kind
           t == manager_threads[id]
       IN IF HasStop(kind) /\ StopRaises(kind)
          THEN /\ mcall' = Ended(op, id, "raised", "StopError", FALSE)
               /\ UNCHANGED <<workers, mpc>>
          ELSE /\ workers' = [workers EXCEPT ![t].asked = @ \/ HasStop(kind)]
               /\ mpc' = "join"
               /\ mcall' = [op |-> op, id |-> id, outcome |-> "pending",
                            value |-> "", waited |-> 0, joined |-> FALSE]
    /\ UNCHANGED <<instances, manager_threads, instance_keys, thread_keys, mthread, got_status, storeVars, assessVars, cycVars, lockVars, regVars>>

\* a call stop_agent(agent_id)
StopAgent(id) ==
    \/ StopEnter("stop_agent", id)
    \/ /\ mpc = "idle"
       /\ id \notin DOMAIN instances
       /\ mcall' = Ended("stop_agent", id, "returned", "not_found", FALSE)
       /\ UNCHANGED <<instances, manager_threads, instance_keys, thread_keys, workers, mpc, mthread, got_status, storeVars,
                      assessVars, cycVars, lockVars, regVars>>

\* a call restart_agent(agent_id): stop_agent, its result dropped, then
\* start_agent
RestartAgent(id) ==
    \/ StopEnter("restart_agent", id)
    \/ /\ mpc = "idle"
       /\ id \notin DOMAIN instances
       /\ LET o == StartOutcome(id, instances, manager_threads, workers)
          IN /\ instances' = o.instances
             /\ manager_threads' = o.manager_threads
             /\ workers' = o.workers
             /\ instance_keys' = KeysAfter(instance_keys, instances')
             /\ thread_keys' = KeysAfter(thread_keys, manager_threads')
             /\ mcall' = Ended("restart_agent", id, o.outcome, o.value, FALSE)
       /\ UNCHANGED <<mpc, mthread, got_status, storeVars, assessVars, cycVars, lockVars, regVars>>

\* one time unit passes while the caller waits in thread.join(timeout=5)
JoinWait ==
    /\ mpc = "join"
    /\ workers[manager_threads[mcall.id]].state = "alive"
    /\ mcall.waited < JoinTimeout
    /\ mcall' = [mcall EXCEPT !.waited = @ + 1]
    /\ UNCHANGED <<instances, manager_threads, instance_keys, thread_keys, workers, mpc, mthread, got_status, storeVars,
                   assessVars, cycVars, lockVars, regVars>>

\* a plausible slip: a join without timeout, which returns only once the
\* thread has exited
JoinReturnNoTimeout ==
    /\ mpc = "join"
    /\ workers[manager_threads[mcall.id]].state = "exited"
    /\ instances' = Remove(instances, mcall.id)
    /\ manager_threads' = Remove(manager_threads, mcall.id)
    /\ instance_keys' = KeysAfter(instance_keys, instances')
    /\ thread_keys' = KeysAfter(thread_keys, manager_threads')
    /\ mcall' = Ended(mcall.op, mcall.id, "returned", "stopped", TRUE)
    /\ mpc' = "idle"
    /\ UNCHANGED <<workers, mthread, got_status, storeVars, assessVars, cycVars, lockVars, regVars>>

\* a plausible slip: the pair is forgotten only when the thread was joined
JoinReturnKeepsLeaked ==
    /\ mpc = "join"
    /\ LET exited == workers[manager_threads[mcall.id]].state = "exited"
       IN /\ exited \/ mcall.waited = JoinTimeout
          /\ instances' = IF exited THEN Remove(instances, mcall.id) ELSE instances
          /\ manager_threads' = IF exited THEN Remove(manager_threads, mcall.id)
                                ELSE manager_threads
          /\ instance_keys' = KeysAfter(instance_keys, instances')
          /\ thread_keys' = KeysAfter(thread_keys, manager_threads')
          /\ mcall' = Ended(mcall.op, mcall.id, "returned", "stopped", exited)
    /\ mpc' = "idle"
    /\ UNCHANGED <<workers, mthread, got_status, storeVars, assessVars, cycVars, lockVars, regVars>>

\* thread.join returns, because the thread has exited or the timeout has
\* passed; the pair is deleted and stop_agent returns (lines 30 to 33); a
\* restart_agent goes on into start_agent (line 38)
JoinReturn ==
    /\ mpc = "join"
    /\ LET id == mcall.id
           exited == workers[manager_threads[id]].state = "exited"
           inst == Remove(instances, id)
           thr == Remove(manager_threads, id)
           o == StartOutcome(id, inst, thr, workers)
       IN /\ exited \/ mcall.waited = JoinTimeout
          /\ IF mcall.op = "stop_agent"
             THEN /\ instances' = inst
                  /\ manager_threads' = thr
                  /\ workers' = workers
                  /\ mcall' = Ended("stop_agent", id, "returned", "stopped", exited)
             ELSE /\ instances' = o.instances
                  /\ manager_threads' = o.manager_threads
                  /\ workers' = o.workers
                  /\ mcall' = Ended("restart_agent", id, o.outcome, o.value, exited)
          /\ instance_keys' = KeysAfter(KeyDel(instance_keys, id), instances')
          /\ thread_keys' = KeysAfter(KeyDel(thread_keys, id), manager_threads')
    /\ mpc' = "idle"
    /\ UNCHANGED <<mthread, got_status, storeVars, assessVars, cycVars, lockVars, regVars>>

\* the run method of a thread's instance returns
WorkerExit(t) ==
    /\ workers[t].state = "alive"
    /\ MayExit(workers[t])
    /\ workers' = [workers EXCEPT ![t].state = "exited"]
    /\ UNCHANGED <<instances, manager_threads, instance_keys, thread_keys, mpc, mcall, mthread, got_status, storeVars, assessVars, cycVars, lockVars,
                   regVars>>

(***************************************************************************)
(* The agent manager called by several threads. Every statement on the two *)
(* maps is one step of its thread; mthread holds the threads that are      *)
(* inside a call.                                                          *)
(***************************************************************************)
\* get_status() on the two maps, their keys in insertion order, and the
\* threads (lines 40 to 47): zip pairs the i-th key and instance of
\* instances with the i-th thread of threads, up to the shorter of the two
GetStatusOf(inst, ikeys, thr, tkeys, wk) ==
    LET n == MinOf({Len(ikeys), Len(tkeys)})
    IN [id \in {ikeys[i] : i \in 1..n} |->
          LET i == CHOOSE j \in 1..n : ikeys[j] = id
          IN [alive |-> wk[thr[tkeys[i]]].state = "alive",
              class |-> inst[id].kind]]

\* for each tracked id, whether its own thread is alive and the class of its
\* own instance
TrackedStatus ==
    [id \in DOMAIN instances |->
        [alive |-> workers[manager_threads[id]].state = "alive",
         class |-> instances[id].kind]]

\* the ids that threads other than c are working on
BusyIds(c) == {mthread[d].id : d \in DOMAIN mthread \ {c}}

\* thread c calls start_agent(agent_id)
StartAgentBy(c, id) ==
    /\ c \notin DOMAIN mthread
    /\ id \notin BusyIds(c)
    /\ LET o == StartOutcome(id, instances, manager_threads, workers)
       IN /\ instances' = o.instances
          /\ manager_threads' = o.manager_threads
          /\ workers' = o.workers
          /\ instance_keys' = KeysAfter(instance_keys, instances')
          /\ thread_keys' = KeysAfter(thread_keys, manager_threads')
          /\ mcall' = Ended("start_agent", id, o.outcome, o.value, FALSE)
    /\ UNCHANGED <<mpc, mthread, got_status, storeVars, assessVars, cycVars,
                   lockVars, regVars>>

\* thread c, holding an instance of its own, runs the statements of lines 18
\* to 21 for it: here the thread is created and the instance recorded
\* (lines 18 and 19)
TrackInstance(c, id, kind) ==
    /\ c \notin DOMAIN mthread
    /\ id \notin BusyIds(c)
    /\ Len(workers) < MaxWorkers
    /\ workers' = Append(workers, [NewWorker(kind) EXCEPT !.state = "created"])
    /\ instances' = Assign(instances, id, [kind |-> kind])
    /\ instance_keys' = KeysAfter(instance_keys, instances')
    /\ mthread' = Assign(mthread, c, [op |-> "track", id |-> id, pc |-> "threads",
                                      thread |-> Len(workers) + 1])
    /\ UNCHANGED <<manager_threads, thread_keys, mpc, mcall, got_status, storeVars,
                   assessVars, cycVars, lockVars, regVars>>

\* the thread is recorded and started (lines 20 and 21)
TrackThread(c) ==
    /\ c \in DOMAIN mthread
    /\ mthread[c].op = "track"
    /\ manager_threads' = Assign(manager_threads, mthread[c].id, mthread[c].thread)
    /\ thread_keys' = KeysAfter(thread_keys, manager_threads')
    /\ workers' = [workers EXCEPT ![mthread[c].thread].state = "alive"]
    /\ mthread' = Remove(mthread, c)
    /\ UNCHANGED <<instances, instance_keys, mpc, mcall, got_status, storeVars,
                   assessVars, cycVars, lockVars, regVars>>

\* thread c calls stop_agent(agent_id), directly or from restart_agent, and
\* comes to thread.join (lines 25 to 29), or returns not-found (line 34)
StopEnterBy(c, op, id) ==
    /\ c \notin DOMAIN mthread
    /\ id \notin BusyIds(c)
    /\ IF id \notin DOMAIN instances
       THEN /\ op = "stop_agent"
            /\ mcall' = Ended(op, id, "returned", "not_found", FALSE)
            /\ UNCHANGED <<workers, mthread>>
       ELSE LET kind == instances[id].kind
                t == manager_threads[id]
            IN IF HasStop(kind) /\ StopRaises(kind)
               THEN /\ mcall' = Ended(op, id, "raised", "StopError", FALSE)
                    /\ UNCHANGED <<workers, mthread>>
               ELSE /\ workers' = [workers EXCEPT ![t].asked = @ \/ HasStop(kind)]
                    /\ mthread' = Assign(mthread, c, [op |-> op, id |-> id,
                                                      pc |-> "join", thread |-> t])
                    /\ UNCHANGED mcall
    /\ UNCHANGED <<instances, manager_threads, instance_keys, thread_keys, mpc,
                   got_status, storeVars, assessVars, cycVars, lockVars, regVars>>

\* thread.join(timeout=5) returns to thread c, the thread having exited or
\* the timeout having passed, and the instance is deleted (lines 30 and 31)
DeleteInstance(c) ==
    /\ c \in DOMAIN mthread
    /\ mthread[c].pc = "join"
    /\ instances' = Remove(instances, mthread[c].id)
    /\ instance_keys' = KeysAfter(instance_keys, instances')
    /\ mthread' = [mthread EXCEPT ![c].pc = "threads"]
    /\ UNCHANGED <<manager_threads, thread_keys, workers, mpc, mcall, got_status,
                   storeVars, assessVars, cycVars, lockVars, regVars>>

\* the thread is deleted and stop_agent returns (lines 32 and 33); a
\* restart_agent goes on into start_agent (line 38)
DeleteThread(c) ==
    /\ c \in DOMAIN mthread
    /\ mthread[c].op # "track"
    /\ mthread[c].pc = "threads"
    /\ LET id == mthread[c].id
           thr == Remove(manager_threads, id)
           o == StartOutcome(id, instances, thr, workers)
       IN IF mthread[c].op = "stop_agent"
          THEN /\ manager_threads' = thr
               /\ thread_keys' = KeyDel(thread_keys, id)
               /\ mcall' = Ended("stop_agent", id, "returned", "stopped", FALSE)
               /\ UNCHANGED <<instances, instance_keys, workers>>
          ELSE /\ instances' = o.instances
               /\ manager_threads' = o.manager_threads
               /\ workers' = o.workers
               /\ instance_keys' = KeysAfter(instance_keys, instances')
               /\ thread_keys' = KeysAfter(KeyDel(thread_keys, id), manager_threads')
               /\ mcall' = Ended("restart_agent", id, o.outcome, o.value, FALSE)
    /\ mthread' = Remove(mthread, c)
    /\ UNCHANGED <<mpc, got_status, storeVars, assessVars, cycVars, lockVars, regVars>>

\* thread c calls get_status(); quiet tells that no other call was under way
GetStatus(c) ==
    /\ c \notin DOMAIN mthread
    /\ got_status' =
          [taken |-> TRUE,
           quiet |-> mthread = <<>>,
           value |-> GetStatusOf(instances, instance_keys, manager_threads,
                                 thread_keys, workers),
           tracked |-> IF mthread = <<>> THEN TrackedStatus ELSE <<>>]
    /\ UNCHANGED <<instances, manager_threads, instance_keys, thread_keys, workers,
                   mpc, mcall, mthread, storeVars, assessVars, cycVars, lockVars,
                   regVars>>

(***************************************************************************)
(* Inputs.                                                                 *)
(***************************************************************************)
NameA == <<"a">>
NameAv1 == <<"a", "_", "v", "1">>
NameAv2 == <<"a", "_", "v", "2">>
NameAvx == <<"a", "_", "v", "x">>
NameAb == <<"a", "b">>

\* the feature names written in SpecStore: versions of feature a, one with a
\* suffix that is no number, and a feature whose name starts with a's
StoreNames == {NameA, NameAv1, NameAv2, NameAvx, NameAb}

StoreCodes == {Scaled(10, 10, TRUE), NoStrategy}

\* the codes feature a is written with in SpecImprove
ImproveCodes == {Scaled(10, 10, FALSE), NoStrategy, Broken, Raises, NonList, Ints}

\* the write_feature calls of SpecImprove: feature a with each code, a
\* version of it with a suffix that is no number with the first
ImproveWrites ==
    {<<NameA, c>> : c \in ImproveCodes} \cup {<<NameAvx, Scaled(10, 10, FALSE)>>}

\* evaluation records: an expected return, or a record without that field
Loss == [expected_return |-> -100]
BigLoss == [expected_return |-> -600]
Gain == [expected_return |-> 100]
NoReturn == [volume |-> 1]

\* the evaluation datasets given to self_improve
EvalData ==
    {<<>>, <<Loss>>, <<BigLoss>>, <<Gain>>, <<Gain, NoReturn>>, <<BigLoss, BigLoss>>}

\* agent names, classes and metadata
AgentNames == {"echo", "aux"}

\* the classes registered under each name: echo with a class of each kind,
\* aux with one whose threads may run on, return or raise
Registrations ==
    {<<"echo", "Steady">>, <<"echo", "Faulty">>, <<"echo", "NoRun">>, <<"aux", "Faulty">>}

Metadatas == {[description |-> "d"], [description |-> "e"]}

\* the metadata a registration is made with: echo's Steady class with either
\* description, so that a registration can replace the metadata of an
\* earlier one, the other classes with the first
MetadataChoices(r) ==
    IF r = <<"echo", "Steady">> THEN Metadatas ELSE {[description |-> "d"]}

\* the actions given to control_agent: the three verbs, one of them padded
\* and in capitals, and an unknown one
RawActions == {START, <<" ", "S", "T", "O", "P", " ">>, RESTART, <<"p", "a", "u", "s", "e">>}

\* result records: a profit, or a record without that field
ResultTrades ==
    {[profit |-> 100], [profit |-> -150], [profit |-> 30], [profit |-> 0], [volume |-> 1]}

\* the feature names of the stored files: f[:-3] for f in os.listdir(...)
StoredFeatures == {DropLast3(f) : f \in DOMAIN files}

(***************************************************************************)
(* Specifications.  Each starts from the state after construction / module *)
(* import; the parts of the state a specification does not use stay put.   *)
(***************************************************************************)
NoControlCall == [name |-> "", action |-> <<>>, ret |-> "none", thread |-> 0]

\* agent_registry imported, no agent registered, the callers idle
RegInit(callers) ==
    /\ AGENT_REGISTRY = <<>>
    /\ AGENT_STATUS = <<>>
    /\ AGENT_THREADS = <<>>
    /\ threads = <<>>
    /\ pc = [c \in callers |-> "idle"]
    /\ call = [c \in callers |-> NoControlCall]
    /\ lastStart = [n \in AgentNames |-> "no"]
    /\ observed = [n \in AgentNames |-> <<>>]

RegIdle == RegInit({})

MgrIdle == MgrInit

AssessIdle == results = <<>> /\ assessed = [done |-> FALSE, value |-> ZeroPerformance]

CycIdle == writer = Constructed(max_versions) /\ cycle = NoCycle

LockIdle == lock = Free /\ tpc = <<>>

StoreIdle ==
    /\ max_versions = 1
    /\ files = <<>>
    /\ performance_records = <<>>
    /\ now = 1
    /\ fsCall = NoCall
    /\ writeLog = <<>>
    /\ nCalls = 0
    /\ CycIdle /\ LockIdle

\* AdvancedFeatureWriter(plugin_dir, max_versions) on an empty directory
StoreInit ==
    /\ max_versions \in 1..MaxCap
    /\ files = <<>>
    /\ performance_records = <<>>
    /\ now = 1
    /\ fsCall = NoCall
    /\ writeLog = <<>>
    /\ nCalls = 0
    /\ CycIdle /\ LockIdle

InitStore == StoreInit /\ AssessIdle /\ RegIdle /\ MgrIdle

\* a write_feature call of SpecStore, entered in the log of names written
LoggedWrite(n, c) ==
    /\ Len(writeLog) < MaxWrites
    /\ WriteFeature(n, c)
    /\ writeLog' = Append(writeLog, n)

NextStore ==
    \E n \in StoreNames, c \in StoreCodes : LoggedWrite(n, c)

SpecStore == InitStore /\ [][NextStore]_vars

\* a store call of SpecImprove
ImproveCall ==
    /\ nCalls < MaxCalls
    /\ \/ \E w \in ImproveWrites : WriteFeature(w[1], w[2]) /\ UNCHANGED writeLog
       \/ \E n \in StoredFeatures \cup {NameA}, d \in EvalData :
            SelfImprove(n, d) /\ UNCHANGED cycle
       \/ \E n \in StoredFeatures \cup {NameA} : LoadCall(n)
       \/ \E n \in StoredFeatures, d \in EvalData : EvaluateCall(n, d)

NextImprove == ImproveCall \/ Tick

SpecImprove == InitStore /\ [][NextImprove]_vars

\* the arguments AdvancedFeatureWriter is constructed with
CtorArgs == {PyInt(-1), PyInt(0), PyInt(1), PyInt(MaxCap), PyFloat(2)}

\* the features written before the cycle starts
SeedNames == {NameA, NameAv1}

SeedCodes == {Scaled(10, 10, FALSE), Broken}

CycleData == {<<Loss>>, <<Gain>>}

Intervals == {-1, 0, 1}

\* nothing constructed yet, the plugin directory absent
InitCycle ==
    /\ max_versions = 0
    /\ files = <<>>
    /\ performance_records = <<>>
    /\ now = 1
    /\ fsCall = NoCall
    /\ writeLog = <<>>
    /\ nCalls = 0
    /\ writer = NoWriter
    /\ cycle = NoCycle
    /\ LockIdle /\ AssessIdle /\ RegIdle /\ MgrIdle

\* a write_feature call made before the cycle is started
SeedWrite(n, c) ==
    /\ writer.state = "constructed"
    /\ cycle.pc = "none"
    /\ nCalls < MaxSeeds
    /\ WriteFeature(n, c)
    /\ UNCHANGED writeLog

\* a step of the call of continuous_evaluation_cycle
CycleStep ==
    \/ CycleList
    \/ CycleFeature
    \/ CycleSleep

NextCycle ==
    \/ \E a \in CtorArgs : Construct(a)
    \/ \E n \in SeedNames, c \in SeedCodes : SeedWrite(n, c)
    \/ \E d \in CycleData, i \in Intervals, t \in {"main", "own"} : StartCycle(d, i, t)
    \/ CycleStep
    \/ Interrupt

SpecCycle == InitCycle /\ [][NextCycle]_vars

\* the thread in the cycle is scheduled again and again
SpecCycleFair ==
    SpecCycle /\ WF_vars(CycleList) /\ WF_vars(CycleFeature) /\ WF_vars(CycleSleep)

StoreThreads == 1..MaxStoreThreads

LockedNames == {NameA, NameAv1}

LockedCodes == {Scaled(10, 10, FALSE), Raises}

LockedData == {<<Loss>>}

\* the store constructed, its threads outside any call
InitLocked ==
    /\ max_versions = 1
    /\ files = <<>>
    /\ performance_records = <<>>
    /\ now = 1
    /\ fsCall = NoCall
    /\ writeLog = <<>>
    /\ nCalls = 0
    /\ CycIdle
    /\ lock = Free
    /\ tpc = [t \in StoreThreads |-> IdleThread]
    /\ AssessIdle /\ RegIdle /\ MgrIdle

NextLocked ==
    \E t \in StoreThreads :
        \/ /\ nCalls < MaxStoreOps
           /\ \/ \E n \in LockedNames, c \in LockedCodes : WriteEnter(t, n, c)
              \/ \E n \in LockedNames, d \in LockedData : EvaluateEnter(t, n, d)
        \/ Acquire(t)
        \/ WriteFile(t)
        \/ CleanupList(t)
        \/ CleanupRemove(t)
        \/ EvaluateRun(t)
        \/ EvaluateAssess(t)
        \/ EvaluateUpdate(t)

SpecLocked == InitLocked /\ [][NextLocked]_vars

SeqsUpTo(S, n) == UNION {[1..m -> S] : m \in 0..n}

InitAssess ==
    /\ results \in SeqsUpTo(ResultTrades, MaxLen)
    /\ assessed = [done |-> FALSE, value |-> ZeroPerformance]
    /\ StoreIdle /\ RegIdle /\ MgrIdle

\* a call assess_performance(results)
Assess ==
    /\ ~assessed.done
    /\ assessed' = [done |-> TRUE, value |-> AssessPerformance(results)]
    /\ UNCHANGED <<results, storeVars, regVars, mgrVars, cycVars, lockVars>>

\* the caller takes the next result sequence
NextResults ==
    /\ assessed.done
    /\ results' \in SeqsUpTo(ResultTrades, MaxLen)
    /\ assessed' = [done |-> FALSE, value |-> ZeroPerformance]
    /\ UNCHANGED <<storeVars, regVars, mgrVars, cycVars, lockVars>>

NextAssess == Assess \/ NextResults

SpecAssess == InitAssess /\ [][NextAssess]_vars

(***************************************************************************)
(* Claims about the feature store.                                         *)
(***************************************************************************)
\* n names a version of feature feat: feat itself or feat_v<digits>
IsVersionOf(n, feat) ==
    \/ n = feat
    \/ /\ StartsWith(n, feat \o SEP)
       /\ Len(n) > Len(feat) + 2
       /\ \A i \in (Len(feat) + 3)..Len(n) : IsDigit(n[i])

\* the version number of such a name, the un-suffixed name counting as 0
VersionOf(n, feat) == IF n = feat THEN 0 ELSE IntOf(SubSeq(n, Len(feat) + 3, Len(n)))

\* every write so far stored a distinct version of feature a
OnlyVersionsOfA ==
    /\ \A i \in 1..Len(writeLog) : IsVersionOf(writeLog[i], NameA)
    /\ \A i, j \in 1..Len(writeLog) : i # j => writeLog[i] # writeLog[j]

\* the files of the k writes made last
LastWritten(k) ==
    {FilePath(writeLog[i]) : i \in {j \in 1..Len(writeLog) : j > Len(writeLog) - k}}

Min2(x, y) == IF x <= y THEN x ELSE y

BaseName(f) == SplitFirst(DropLast3(f))

\* C2, as claimed: when no write is in progress, every feature base name has
\* at most max_versions artifacts stored.
C2_AtMostMaxVersions ==
    \A f \in DOMAIN files :
        Cardinality({g \in DOMAIN files : BaseName(g) = BaseName(f)}) <= max_versions

\* C3, as claimed: after write_feature(name, code) returned True for a code
\* that defines new_strategy, load_feature(name) returns a module exposing
\* the new_strategy just written.
C3_WriteThenLoad ==
    (fsCall.op = "write" /\ fsCall.ok /\ fsCall.code.kind = "scaled")
        => LET module == LoadFeature(files, fsCall.name)
           IN /\ module.loaded
              /\ HasNewStrategy(module)
              /\ module.code = Strip(fsCall.code)

\* profitability >= 0, success_rate >= 0.6 and max_drawdown >= -1000
ThresholdsMet(p) ==
    /\ p.profitability >= 0
    /\ p.success_rate.num * 10 >= 6 * p.success_rate.den
    /\ p.max_drawdown >= (-1000) * Scale

\* C4: a self_improve call whose evaluation meets all three thresholds
\* returns nothing and leaves the stored artifacts as they were.
C4_NoWriteWhenThresholdsMet ==
    (fsCall.op = "improve" /\ fsCall.evaluated /\ ThresholdsMet(fsCall.perf))
        => fsCall.ret = <<>> /\ files = fsCall.before

\* C4's case: such a call has returned, on a store that holds artifacts
C4_Witness ==
    /\ fsCall.op = "improve" /\ fsCall.evaluated /\ ThresholdsMet(fsCall.perf)
    /\ fsCall.data # <<>>
    /\ Cardinality(DOMAIN files) >= 2

\* C5, as claimed: a self_improve call that loaded and evaluated the artifact
\* with a success rate below 0.6 stores <feature_name>_v<epoch> and returns
\* that name.
C5_AlwaysWritesWhenRateLow ==
    (fsCall.op = "improve" /\ fsCall.evaluated /\ RateBelow(fsCall.perf.success_rate, 6))
        => /\ fsCall.ret = NewFeatureName(fsCall.name, fsCall.at)
           /\ FilePath(fsCall.ret) \in DOMAIN files

\* C6, as claimed: when the recorded profitability was negative, the version
\* self_improve wrote has, on the same data, a strictly greater profitability.
C6_ImprovedProfitability ==
    (/\ fsCall.op = "improve" /\ fsCall.evaluated
     /\ fsCall.perf.profitability < 0
     /\ fsCall.ret # <<>>
     /\ FilePath(fsCall.ret) \in DOMAIN files)
        => AssessPerformance(RunStrategy(LoadFeature(files, fsCall.ret), fsCall.data)).profitability
              > fsCall.perf.profitability

(***************************************************************************)
(* Claims about assess_performance.                                        *)
(***************************************************************************)
\* the profit a record carries, 0 when it carries none
ProfitOf(r) == IF "profit" \in DOMAIN r THEN r.profit ELSE 0

RECURSIVE Total(_)
Total(rs) == IF rs = <<>> THEN 0 ELSE ProfitOf(Head(rs)) + Total(Tail(rs))

\* C7: assess_performance returns the sum of the profits, the share of
\* records with a positive profit, and the least running total over the
\* non-empty prefixes; for the empty sequence it returns 0 for all three.
C7_AssessPerformance ==
    assessed.done =>
        IF results = <<>>
        THEN /\ assessed.value.profitability = 0
             /\ assessed.value.success_rate.num = 0
             /\ assessed.value.success_rate.den # 0
             /\ assessed.value.max_drawdown = 0
        ELSE /\ assessed.value.profitability = Total(results)
             /\ assessed.value.success_rate.num =
                    Cardinality({i \in 1..Len(results) : ProfitOf(results[i]) > 0})
             /\ assessed.value.success_rate.den = Len(results)
             /\ \E n \in 1..Len(results) :
                    assessed.value.max_drawdown = Total(SubSeq(results, 1, n))
             /\ \A n \in 1..Len(results) :
                    assessed.value.max_drawdown <= Total(SubSeq(results, 1, n))

\* C7's case: the spec's scenario, profits 100, -150, 30
C7_Witness ==
    /\ assessed.done
    /\ results = <<[profit |-> 100], [profit |-> -150], [profit |-> 30]>>
    /\ assessed.value.profitability = -20
    /\ assessed.value.success_rate = [num |-> 2, den |-> 3]
    /\ assessed.value.max_drawdown = -50

(***************************************************************************)
(* The registry with a single caller.                                      *)
(***************************************************************************)
OneCaller == {"c1"}

InitRegistry == RegInit(OneCaller) /\ StoreIdle /\ AssessIdle /\ MgrIdle

NextRegistry ==
    \/ \E c \in OneCaller, r \in Registrations : \E m \in MetadataChoices(r) :
            RegisterAgent(c, r[1], r[2], m)
    \/ \E c \in OneCaller, n \in AgentNames, a \in RawActions : Invoke(c, n, a)
    \/ \E c \in OneCaller : Enter(c) \/ Reenter(c) \/ Spawn(c) \/ Record(c) \/ Mark(c)
    \/ \E t \in 1..Len(threads) : ThreadConstruct(t) \/ ThreadReturn(t) \/ ThreadFault(t)

SpecRegistry == InitRegistry /\ [][NextRegistry]_vars

\* the class agent echo is registered with where each name is registered once
OnceRegistrations == {<<"echo", "Faulty">>}

\* the decorator applied for a name that is not registered yet
RegisterFirst(c, name, cls, metadata) ==
    /\ name \notin DOMAIN AGENT_REGISTRY
    /\ RegisterAgent(c, name, cls, metadata)

\* the registry where the module of each agent is imported once: after the
\* registration only control_agent and the threads change the status
NextRegisteredOnce ==
    \/ \E c \in OneCaller, r \in OnceRegistrations : \E m \in MetadataChoices(r) :
            RegisterFirst(c, r[1], r[2], m)
    \/ \E c \in OneCaller, a \in RawActions : Invoke(c, "echo", a)
    \/ \E c \in OneCaller : Enter(c) \/ Reenter(c) \/ Spawn(c) \/ Record(c) \/ Mark(c)
    \/ \E t \in 1..Len(threads) : ThreadConstruct(t) \/ ThreadReturn(t) \/ ThreadFault(t)

SpecRegisteredOnce == InitRegistry /\ [][NextRegisteredOnce]_vars

(***************************************************************************)
(* Claims about the agent registry.                                        *)
(***************************************************************************)
\* caller c takes the step of control_agent that follows its entry
EntryStep(c) == pc[c] = "entry" /\ pc'[c] # "entry"

\* C8: control_agent with a name that is not registered, or with a
\* registered name and an action that is none of start, stop, restart (read
\* as the code reads it, stripped and in lower case), returns a failure
\* string at once, starts no thread and leaves the registry, the status map
\* and the thread map as they were.
C8_UnknownChangesNothing ==
    [][\A c \in DOMAIN pc :
        (/\ EntryStep(c)
         /\ \/ call[c].name \notin DOMAIN AGENT_REGISTRY
            \/ Normalize(call[c].action) \notin {START, STOP, RESTART})
        => /\ pc'[c] = "idle"
           /\ call'[c].ret = IF call[c].name \notin DOMAIN AGENT_REGISTRY
                             THEN "not_found" ELSE "unknown_action"
           /\ AGENT_REGISTRY' = AGENT_REGISTRY
           /\ AGENT_STATUS' = AGENT_STATUS
           /\ AGENT_THREADS' = AGENT_THREADS
           /\ threads' = threads]_vars

\* C8's case: an unknown action has been refused for an agent that is
\* running, beside an agent that is not registered
C8_Witness ==
    \E c \in DOMAIN pc :
        /\ pc[c] = "idle"
        /\ call[c].ret = "unknown_action"
        /\ \E n \in DOMAIN AGENT_STATUS : AGENT_STATUS[n] = "running"
        /\ \E n \in AgentNames : n \notin DOMAIN AGENT_REGISTRY

\* caller c takes the entry step of a start call for a registered agent whose
\* last call was a start too
SecondStart(c) ==
    /\ EntryStep(c)
    /\ call[c].name \in DOMAIN AGENT_REGISTRY
    /\ Branch(call[c].action) = "start"

\* the second start returns already-running and starts and records no thread
RefusedAsRunning(c) ==
    /\ pc'[c] = "idle"
    /\ call'[c].ret = "already_running"
    /\ threads' = threads
    /\ AGENT_THREADS' = AGENT_THREADS

\* C9, as claimed: of two start calls for an agent with no stop or restart
\* between them, the second starts no thread and returns already-running,
\* whatever the first thread has done in the meantime.
C9_SecondStartRefused ==
    [][\A c \in DOMAIN pc :
        (SecondStart(c) /\ lastStart[call[c].name] \in {"yes", "faulted"})
            => RefusedAsRunning(c)]_vars

\* C9, amended: the same, provided no thread of the agent has faulted since
\* the first start returned: the first thread may still run, may have
\* returned, or may have faulted before the first call set the status.
C9_SecondStartRefusedUnlessFaulted ==
    [][\A c \in DOMAIN pc :
        (SecondStart(c) /\ lastStart[call[c].name] = "yes")
            => RefusedAsRunning(c)]_vars

\* C9's case: a second start has been refused although the thread of the
\* first has already returned
C9_Witness ==
    \E c \in DOMAIN pc : \E n \in DOMAIN AGENT_THREADS :
        /\ pc[c] = "idle"
        /\ call[c].ret = "already_running"
        /\ lastStart[n] = "yes"
        /\ threads[AGENT_THREADS[n]].state = "finished"
        /\ Len(threads) = 1

ScenarioStatuses == <<"stopped", "running", "stopped", "running">>

\* C10: along register, start, stop, restart on an agent none of whose
\* threads faults, the statuses listed after the calls are stopped, running,
\* stopped, running, in that order.
C10_ScenarioStatuses ==
    \A n \in AgentNames :
        \A i \in 1..Len(observed[n]) : observed[n][i] = ScenarioStatuses[i]

\* C10's case: the four calls have been made and listed
C10_Witness == \E n \in AgentNames : Len(observed[n]) = 4

\* C11: when the constructor or run method of an agent raises on the thread
\* spawned by a start call, the status of the agent is error once both the
\* call and the thread have finished, in whichever order the call's status
\* update and the thread's handler run: a start call that returns after its
\* thread has faulted leaves the status error, and so does a thread that
\* faults after the call has returned.
C11_FaultEndsInError ==
    [][/\ \A c \in DOMAIN pc :
            (/\ pc[c] = "mark" /\ pc'[c] = "idle"
             /\ Branch(call[c].action) = "start"
             /\ threads[call[c].thread].state = "faulted")
            => AGENT_STATUS'[call[c].name] = "error"
       /\ \A t \in 1..Len(threads) :
            (threads[t].state # "faulted" /\ threads'[t].state = "faulted")
            => AGENT_STATUS'[threads[t].name] = "error"]_vars

(***************************************************************************)
(* The registry with two callers of control_agent on one agent.            *)
(***************************************************************************)
TwoCallers == {"c1", "c2"}

\* the agent the two callers act on, and the actions they give
SharedRegistrations == {<<"echo", "Steady">>, <<"echo", "Faulty">>}

SharedActions == {START, STOP}

InitConcurrent == RegInit(TwoCallers) /\ StoreIdle /\ AssessIdle /\ MgrIdle

NextConcurrent ==
    \/ \E c \in TwoCallers, r \in SharedRegistrations : \E m \in MetadataChoices(r) :
            RegisterAgent(c, r[1], r[2], m)
    \/ \E c \in TwoCallers, a \in SharedActions : Invoke(c, "echo", a)
    \/ \E c \in TwoCallers : Enter(c) \/ Spawn(c) \/ Record(c) \/ Mark(c)
    \/ \E t \in 1..Len(threads) : ThreadConstruct(t) \/ ThreadReturn(t) \/ ThreadFault(t)

SpecConcurrent == InitConcurrent /\ [][NextConcurrent]_vars

\* C12: the status and thread maps behave as if guarded by a mutex: two
\* callers that are inside start calls for the same agent at the same time
\* have not each spawned a thread for it; one of them was refused as
\* already running before it spawned.
C12_OneThreadForConcurrentStarts ==
    \A c, d \in DOMAIN pc :
        (/\ c # d
         /\ call[c].name = call[d].name
         /\ Branch(call[c].action) = "start" /\ Branch(call[d].action) = "start"
         /\ pc[c] \in {"record", "mark"} /\ pc[d] \in {"record", "mark"})
        => call[c].thread = call[d].thread

(***************************************************************************)
(* Further claims about the registry with a single caller.                 *)
(***************************************************************************)
\* caller c is inside a restart call for a registered agent
InRestart(c) ==
    /\ call[c].name \in DOMAIN AGENT_REGISTRY
    /\ Branch(call[c].action) = "restart"

\* C13: restart on a registered agent behaves as stop followed by start: its
\* first step has the effect of stop (status stopped, nothing else changed),
\* its nested start is never refused as already running, whatever the status
\* was, it spawns a new thread while leaving every earlier thread as it is,
\* and it returns the started result with the status running and the new
\* thread recorded.
C13_RestartIsStopThenStart ==
    [][\A c \in DOMAIN pc :
        LET name == call[c].name
        IN /\ (EntryStep(c) /\ InRestart(c))
                => /\ pc'[c] = "reenter"
                   /\ AGENT_STATUS' = Assign(AGENT_STATUS, name, "stopped")
                   /\ AGENT_REGISTRY' = AGENT_REGISTRY
                   /\ AGENT_THREADS' = AGENT_THREADS
                   /\ threads' = threads
           /\ (pc[c] = "reenter" /\ pc'[c] # "reenter")
                => /\ pc'[c] = "spawn"
                   /\ call'[c].ret # "already_running"
                   /\ AGENT_STATUS' = AGENT_STATUS
                   /\ AGENT_THREADS' = AGENT_THREADS
                   /\ threads' = threads
           /\ (pc[c] = "spawn" /\ pc'[c] # "spawn" /\ InRestart(c))
                => /\ Len(threads') = Len(threads) + 1
                   /\ SubSeq(threads', 1, Len(threads)) = threads
                   /\ threads'[Len(threads')].name = name
           /\ (pc[c] = "mark" /\ pc'[c] # "mark" /\ InRestart(c))
                => /\ pc'[c] = "idle"
                   /\ call'[c].ret = "started"
                   /\ AGENT_STATUS'[name] = "running"
                   /\ AGENT_THREADS'[name] = call[c].thread]_vars

\* C13's case: a restart of a running agent has returned started with a
\* second thread recorded, while the thread of the earlier start still runs
C13_Witness ==
    \E c \in DOMAIN pc : \E n \in DOMAIN AGENT_THREADS :
        /\ pc[c] = "idle"
        /\ call[c].ret = "started"
        /\ lastStart[n] = "no"
        /\ AGENT_STATUS[n] = "running"
        /\ AGENT_THREADS[n] = 2
        /\ threads[1].name = n
        /\ threads[1].state = "running"

\* C14: stop on a registered agent sets its status to stopped and changes
\* nothing else: the thread recorded for the agent is kept, no thread changes
\* state, and the entries of the other agents are as they were.
C14_StopOnlySetsStatus ==
    [][\A c \in DOMAIN pc :
        (/\ EntryStep(c)
         /\ call[c].name \in DOMAIN AGENT_REGISTRY
         /\ Branch(call[c].action) = "stop")
        => /\ pc'[c] = "idle"
           /\ call'[c].ret = "marked_stopped"
           /\ AGENT_STATUS' = Assign(AGENT_STATUS, call[c].name, "stopped")
           /\ AGENT_THREADS' = AGENT_THREADS
           /\ AGENT_REGISTRY' = AGENT_REGISTRY
           /\ threads' = threads]_vars

\* C14's case: an agent has been stopped while its recorded thread runs on,
\* beside another agent that is still running
C14_Witness ==
    \E c \in DOMAIN pc : \E n, k \in DOMAIN AGENT_THREADS :
        /\ n # k
        /\ pc[c] = "idle"
        /\ call[c].ret = "marked_stopped"
        /\ AGENT_STATUS[n] = "stopped"
        /\ threads[AGENT_THREADS[n]].state = "running"
        /\ AGENT_STATUS[k] = "running"

\* a step that applies register_agent(n, **m) to class cls and changes the
\* descriptor or the listed status of n
RegisterStep(n, cls, m) ==
    /\ pc' = pc
    /\ threads' = threads
    /\ AGENT_REGISTRY' = Assign(AGENT_REGISTRY, n, [class |-> cls, metadata |-> m])
    /\ \/ AGENT_REGISTRY' # AGENT_REGISTRY
       \/ ListedStatus(AGENT_STATUS', n) # ListedStatus(AGENT_STATUS, n)

\* C15: after a registration of name with metadata, the listing has name with
\* status stopped and that metadata, whatever descriptor and status name had
\* before; the entries of the other names are as they were, and an entry
\* holds a status and a metadata and nothing else.
C15_RegisterListsStopped ==
    [][\A r \in Registrations : \A m \in Metadatas :
        RegisterStep(r[1], r[2], m) =>
            LET before == GetRegisteredAgents(AGENT_REGISTRY, AGENT_STATUS)
                after == GetRegisteredAgents(AGENT_REGISTRY', AGENT_STATUS')
            IN /\ DOMAIN after = DOMAIN before \cup {r[1]}
               /\ after[r[1]].status = "stopped"
               /\ after[r[1]].metadata = m
               /\ \A k \in DOMAIN before \ {r[1]} : after[k] = before[k]
               /\ \A k \in DOMAIN after : DOMAIN after[k] = {"status", "metadata"}]_vars

\* C15's case: an agent whose thread, made from the class registered before,
\* still runs has been registered again with another class and other
\* metadata and is listed as stopped, beside an agent listed as running
C15_Witness ==
    \E n, k \in DOMAIN AGENT_THREADS :
        /\ n # k
        /\ observed[n] = <<"stopped">>
        /\ GetRegisteredAgents(AGENT_REGISTRY, AGENT_STATUS)[n] =
                [status |-> "stopped", metadata |-> [description |-> "e"]]
        /\ threads[AGENT_THREADS[n]].state = "running"
        /\ threads[AGENT_THREADS[n]].cls # AGENT_REGISTRY[n].class
        /\ GetRegisteredAgents(AGENT_REGISTRY, AGENT_STATUS)[k].status = "running"

(***************************************************************************)
(* The agent manager with a single caller, beside registrations.           *)
(***************************************************************************)
ManagerKinds == {"Looper", "Deaf", "Daemon", "Oneshot", "BadStop"}

\* the registrations made beside the manager: echo is registered at some
\* point, aux never
ManagedRegistrations == {<<"echo", "Steady">>}

InitManager == RegInit(OneCaller) /\ StoreIdle /\ AssessIdle /\ MgrInit

NextManager ==
    \/ \E c \in OneCaller, r \in ManagedRegistrations : \E m \in MetadataChoices(r) :
            RegisterAgent(c, r[1], r[2], m)
    \/ \E id \in AgentNames, k \in ManagerKinds : Adopt(id, k)
    \/ \E id \in AgentNames : StartAgent(id)
    \/ \E id \in AgentNames : StopAgent(id)
    \/ \E id \in AgentNames : RestartAgent(id)
    \/ JoinWait
    \/ JoinReturn
    \/ \E t \in 1..Len(workers) : WorkerExit(t)

SpecManager == InitManager /\ [][NextManager]_vars

\* time passes for a caller waiting in join, and a join whose thread has
\* exited or whose timeout has passed returns
SpecManagerFair == SpecManager /\ WF_vars(JoinWait) /\ WF_vars(JoinReturn)

\* the threads that call the manager beside each other
ManagerThreads == {"m1", "m2"}

\* the classes of the instances tracked in SpecStatus
StatusKinds == {"Oneshot", "BadStop"}

InitStatus == RegInit(OneCaller) /\ StoreIdle /\ AssessIdle /\ MgrInit

NextStatus ==
    \/ \E c \in OneCaller, r \in ManagedRegistrations : \E m \in MetadataChoices(r) :
            RegisterAgent(c, r[1], r[2], m)
    \/ \E c \in ManagerThreads, id \in AgentNames : StartAgentBy(c, id)
    \/ \E c \in ManagerThreads, id \in AgentNames, k \in StatusKinds :
            TrackInstance(c, id, k)
    \/ \E c \in ManagerThreads : TrackThread(c)
    \/ \E c \in ManagerThreads, id \in AgentNames,
          op \in {"stop_agent", "restart_agent"} : StopEnterBy(c, op, id)
    \/ \E c \in ManagerThreads : DeleteInstance(c)
    \/ \E c \in ManagerThreads : DeleteThread(c)
    \/ \E c \in ManagerThreads : GetStatus(c)
    \/ \E t \in 1..Len(workers) : WorkerExit(t)

SpecStatus == InitStatus /\ [][NextStatus]_vars

(***************************************************************************)
(* Claims about the agent manager.                                         *)
(***************************************************************************)
\* C16: start_agent for an id that is registered constructs an instance of
\* the registered class, starts a thread for it, records one instance and
\* one thread under the id and returns the started message.
C16_StartAgentStarts ==
    [][(/\ mcall' # mcall
        /\ mcall'.op = "start_agent"
        /\ mcall'.id \in DOMAIN AGENT_REGISTRY)
       => /\ mcall'.outcome = "returned"
          /\ mcall'.value = "started"
          /\ Len(workers') = Len(workers) + 1
          /\ mcall'.id \in DOMAIN instances'
          /\ mcall'.id \in DOMAIN manager_threads'
          /\ instances'[mcall'.id].kind = AGENT_REGISTRY[mcall'.id].class]_vars

\* C17: every registry and manager operation returns a status string and
\* never raises to its caller, also for an id that is not registered or not
\* tracked.
C17_OperationsNeverRaise ==
    /\ mcall.outcome # "raised"
    /\ \A c \in DOMAIN pc : call[c].ret # "raised"

\* C18: when stop_agent returns for a tracked id, the id is in neither map,
\* whether the thread exited within the join timeout or not; for an id that
\* is not tracked it returns not-found and leaves both maps as they were.
C18_StopAgentForgets ==
    [][(/\ mcall' # mcall
        /\ mcall'.op = "stop_agent"
        /\ mcall'.outcome = "returned")
       => IF mpc = "join"
          THEN /\ mcall'.value = "stopped"
               /\ mcall'.id \notin DOMAIN instances'
               /\ mcall'.id \notin DOMAIN manager_threads'
          ELSE /\ mcall'.id \notin DOMAIN instances
               /\ mcall'.value = "not_found"
               /\ instances' = instances
               /\ manager_threads' = manager_threads]_vars

\* C18's case: stop_agent has returned after its join timed out on a thread
\* that is still alive, and the id is forgotten
C18_Witness ==
    /\ mpc = "idle"
    /\ mcall.op = "stop_agent" /\ mcall.value = "stopped"
    /\ ~mcall.joined
    /\ mcall.id \notin DOMAIN instances
    /\ \E t \in 1..Len(workers) : workers[t].kind = "Deaf" /\ workers[t].state = "alive"

\* C19: a stop_agent call whose stop method has returned completes, also
\* when the run method never exits: the join ends with its timeout.
C19_StopAgentTerminates == (mpc = "join") ~> (mpc = "idle")

\* C19's case: stop_agent has returned for an agent without a stop method
\* whose run method never exits
C19_Witness ==
    /\ mpc = "idle"
    /\ mcall.op = "stop_agent" /\ mcall.outcome = "returned"
    /\ ~mcall.joined
    /\ Len(workers) = 1
    /\ workers[1].kind = "Daemon" /\ workers[1].state = "alive"

(***************************************************************************)
(* Further claims about the feature store.                                 *)
(***************************************************************************)
\* C20: the result of write_feature(name, code) tells whether the code was
\* persisted: it is True exactly when the artifact of name holds the code
\* once the call has returned, and False only when it does not.
C20_ResultTellsPersisted ==
    fsCall.op = "write" =>
        LET f == FilePath(fsCall.name)
        IN fsCall.ok <=> (f \in DOMAIN files /\ files[f] = Strip(fsCall.code))

\* C21, as claimed: a write whose feature shares its prefix with a stored
\* artifact that has no number after its last '_v' does not fail in its
\* cleanup, and leaves at most max_versions artifacts of that prefix.
C21_CleanupToleratesMalformed ==
    LET prefix == SplitFirst(fsCall.name)
        sharing == {f \in DOMAIN files : StartsWith(f, prefix) /\ EndsWith(f, PY)}
    IN (fsCall.op = "write" /\ \E f \in sharing : ~KeyDefined(f))
        => /\ fsCall.ok
           /\ Cardinality(sharing) <= max_versions

\* the step of a store call op that has just returned
CallStep(op) == nCalls' # nCalls /\ fsCall'.op = op

\* loading feature_name from the files fs fails: no file, or a faulting one
LoadFails(fs, feature_name) ==
    \/ FilePath(feature_name) \notin DOMAIN fs
    \/ fs[FilePath(feature_name)].kind = "broken"

\* evaluating code on data fails: there is no new_strategy, it raises, or
\* it returns what is not a list of records
EvalFails(code, data) ==
    \/ code.kind \in {"nostrat", "raises", "nonlist"}
    \/ code.kind = "ints" /\ data # <<>>

\* C22: load_feature returns nothing when no artifact of the name exists and
\* when the artifact's code faults, a module otherwise, and leaves the stored
\* artifacts and the performance records as they were.
C22_LoadFailsQuietly ==
    [][CallStep("load")
        => /\ fsCall'.ok <=> ~LoadFails(files, fsCall'.name)
           /\ files' = files
           /\ performance_records' = performance_records]_vars

\* C22's case: loading a stored artifact whose code faults has returned
\* nothing, with another artifact stored beside it
C22_Witness ==
    /\ fsCall.op = "load" /\ ~fsCall.ok
    /\ FilePath(fsCall.name) \in DOMAIN files
    /\ files[FilePath(fsCall.name)].kind = "broken"
    /\ Cardinality(DOMAIN files) >= 2

\* C23: an evaluation that fails (no new_strategy, new_strategy raises, or
\* its result is no list of records) returns the no-result pair and leaves
\* the performance records exactly as they were.
C23_FailedEvaluationNoRecord ==
    [][(CallStep("evaluate") /\ EvalFails(fsCall'.code, fsCall'.data))
        => /\ ~fsCall'.evaluated
           /\ performance_records' = performance_records]_vars

\* C23's case: evaluating a strategy that returns a list of integers has
\* failed for a feature that has a record from an earlier evaluation
C23_Witness ==
    /\ fsCall.op = "evaluate" /\ ~fsCall.evaluated
    /\ fsCall.code.kind = "ints"
    /\ fsCall.name \in DOMAIN performance_records

\* C24: self_improve returns nothing and writes and deletes no artifact when
\* loading the artifact fails or its evaluation fails.
C24_FailedImproveWritesNothing ==
    (/\ fsCall.op = "improve"
     /\ \/ LoadFails(fsCall.before, fsCall.name)
        \/ EvalFails(fsCall.before[FilePath(fsCall.name)], fsCall.data))
    => /\ fsCall.ret = <<>>
       /\ files = fsCall.before

\* C24's case: self_improve has returned nothing for a stored artifact whose
\* new_strategy raises, on data with a loss
C24_Witness ==
    /\ fsCall.op = "improve" /\ fsCall.ret = <<>>
    /\ fsCall.data = <<Loss>>
    /\ FilePath(fsCall.name) \in DOMAIN files
    /\ files[FilePath(fsCall.name)].kind = "raises"


\* a step of the for loop of the cycle: self_improve has been called
CycleFeatureStep == cycle.pc = "feature" /\ nCalls' # nCalls

\* C25: a feature whose load, evaluation or improvement fails does not stop
\* the evaluation cycle: whatever self_improve did for a feature, the loop
\* goes on to the next feature of the listing, or to the sleep after the
\* last one; at the sleep every feature of the listing has been processed,
\* and the sleep ends in the next iteration unless the cycle is interrupted
C25_FailureKeepsCycleGoing ==
    /\ [][CycleFeatureStep =>
            /\ cycle'.calls = Append(cycle.calls, cycle.features[cycle.idx])
            /\ cycle'.idx = cycle.idx + 1
            /\ cycle'.pc = IF cycle.idx < Len(cycle.features) THEN "feature" ELSE "sleep"]_vars
    /\ [](cycle.pc = "sleep" => cycle.calls = cycle.features)
    /\ [][(cycle.pc = "sleep" /\ cycle'.pc # "sleep") =>
            \/ cycle'.pc = "list"
            \/ cycle'.interrupted /\ ~cycle.interrupted]_vars

\* in a later iteration the first feature of the listing could not be
\* loaded and the one after it has been processed
C25_Witness ==
    /\ cycle.iter >= 1
    /\ Len(cycle.calls) >= 2
    /\ LoadFails(files, cycle.calls[1])
    /\ fsCall.op = "improve"
    /\ fsCall.name = cycle.calls[2]

\* C26: the evaluation cycle is cancellable from outside: once a
\* cancellation has been issued while the cycle runs on a thread of its
\* own, the loop stops and the call returns
C26_CancelStopsOwnThread ==
    (cycle.thread = "own" /\ cycle.interrupted) ~> (cycle.pc = "returned")

\* C27: an iteration of the cycle runs self_improve once for every distinct
\* stored base name: at the sleep no two calls of the iteration were for
\* the same base name
C27_OncePerBaseName ==
    cycle.pc = "sleep" =>
        \A i, j \in 1..Len(cycle.calls) :
            i # j => SplitFirst(cycle.calls[i]) # SplitFirst(cycle.calls[j])

\* C28: invalid configuration fails first: a construction raises exactly
\* when max_versions is not a positive integer, and then makes no directory
\* and no store state; the cycle raises exactly when its interval is not
\* positive, and then has listed and processed nothing
C28_InvalidConfigurationRaisesFirst ==
    /\ [][writer' # writer =>
            /\ (writer'.state = "raised")
                    <=> ~(writer'.arg.py = "int" /\ writer'.arg.value > 0)
            /\ writer'.state = "raised" =>
                    /\ ~writer'.dir
                    /\ UNCHANGED <<max_versions, files, performance_records, nCalls>>]_vars
    /\ [][(cycle.pc = "none" /\ cycle'.pc # "none") =>
            /\ (cycle'.pc = "raised") <=> (cycle'.interval <= 0)
            /\ cycle'.pc = "raised" =>
                    UNCHANGED <<files, performance_records, fsCall, nCalls>>]_vars
    /\ [](cycle.pc = "raised" => cycle.features = <<>> /\ cycle.calls = <<>>)

\* a construction was refused, a later one succeeded, features were
\* written, and the cycle refused its interval
C28_Witness ==
    /\ writer.refused
    /\ writer.state = "constructed"
    /\ files # <<>>
    /\ cycle.pc = "raised"



\* the threads inside a with self._lock block
Inside == {t \in DOMAIN tpc : tpc[t].pc \in InLock}

\* C29: mutual exclusion on the store lock: at most one thread is inside a
\* block that writes a feature file or sets a performance record, that
\* thread holds the lock, and the performance records change only in a step
\* of a thread that holds the lock
C29_MutualExclusion ==
    /\ [](Cardinality(Inside) <= 1 /\ \A t \in Inside : lock = t)
    /\ [][performance_records' # performance_records =>
            \E t \in Inside : lock = t /\ tpc[t].pc = "e_update"]_vars

\* one thread is in the block of write_feature while another, its
\* performance computed, waits for the lock
C29_Witness ==
    \E t, u \in DOMAIN tpc :
        /\ tpc[t].pc = "w_write" /\ lock = t
        /\ tpc[u].pc = "e_acquire"
        /\ performance_records # <<>>

\* the positions in the middle of an operation: strategy invocation, metric
\* computation, file write, retention cleanup
Middle == {"e_run", "e_assess", "e_update", "w_write", "w_cleanup", "w_remove"}

\* C30: only one write or evaluate operation proceeds at a time: no two
\* threads are in the middle of an operation at once
C30_OneOperationAtATime ==
    Cardinality({t \in DOMAIN tpc : tpc[t].pc \in Middle}) <= 1



\* the threads of agent n that have been started and have not ended
LiveThreads(n) ==
    {t \in 1..Len(threads) : threads[t].name = n /\ threads[t].state \in {"started", "running"}}

\* C35: an agent whose status is running has a live thread executing its
\* run entry point: a thread started for it that has not ended
C35_RunningHasLiveThread ==
    \A n \in DOMAIN AGENT_STATUS : AGENT_STATUS[n] = "running" => LiveThreads(n) # {}

\* C36: at most one live thread started through control_agent is executing
\* for an agent name
C36_OneLiveThreadPerName ==
    \A n \in AgentNames : Cardinality(LiveThreads(n)) <= 1

\* thread t was started before the most recent stop or restart of its
\* agent, and that call has returned: the agent is stopped, or runs with a
\* newer thread recorded for it (each name being registered once, only a
\* stop or restart brings this about while t is live)
Superseded(t) ==
    LET n == threads[t].name
    IN /\ \A c \in DOMAIN pc : pc[c] = "idle"
       /\ n \in DOMAIN AGENT_STATUS
       /\ \/ AGENT_STATUS[n] = "stopped"
          \/ /\ AGENT_STATUS[n] = "running"
             /\ n \in DOMAIN AGENT_THREADS
             /\ AGENT_THREADS[n] > t

\* C37: a fault in a superseded thread does not change the status of its
\* agent: the status the later stop or restart set is preserved
C37_SupersededFaultKeepsStatus ==
    [][\A t \in 1..Len(threads) :
            (/\ threads[t].state \in {"started", "running"}
             /\ threads'[t].state = "faulted"
             /\ Superseded(t))
            => AGENT_STATUS'[threads[t].name] = AGENT_STATUS[threads[t].name]]_vars



\* the step is a successful evaluation of feature n, by evaluate_feature
\* or inside self_improve
EvaluatedStep(n) ==
    /\ nCalls' # nCalls
    /\ fsCall'.op \in {"evaluate", "improve"}
    /\ fsCall'.name = n
    /\ fsCall'.evaluated

\* C32: performance records are never removed: a name that has a record
\* keeps one in every later step, whatever happens to its file, and a
\* record is set or replaced only for the name of a successful evaluation,
\* the records of all other names staying as they are
C32_RecordsNeverRemoved ==
    [][/\ DOMAIN performance_records \subseteq DOMAIN performance_records'
       /\ \A n \in DOMAIN performance_records' :
            (n \notin DOMAIN performance_records
                \/ performance_records'[n] # performance_records[n])
            => EvaluatedStep(n)]_vars

\* a feature has its record while its file has been removed by the cleanup,
\* and another feature has been evaluated since
C32_Witness ==
    \E n \in DOMAIN performance_records :
        /\ FilePath(n) \notin DOMAIN files
        /\ fsCall.evaluated /\ fsCall.name # n
        /\ fsCall.name \in DOMAIN performance_records



\* C33: version numbers are monotonic: the improved version a self_improve
\* call has written has a name no stored artifact had before the call, and
\* its version number is greater than that of every artifact of the same
\* feature stored before the call
C33_VersionsMonotonic ==
    (fsCall.op = "improve" /\ fsCall.ret # <<>>) =>
        /\ FilePath(fsCall.ret) \notin DOMAIN fsCall.before
        /\ \A f \in DOMAIN fsCall.before :
            (BaseName(f) = SplitFirst(fsCall.ret) /\ KeyDefined(f))
            => VersionKey(f) < VersionKey(FilePath(fsCall.ret))



\* C34: writing a feature only affects artifacts of that feature: after
\* write_feature(A, code) and its cleanup, every artifact stored before the
\* call whose base name differs from A's is still stored, unchanged
C34_WriteTouchesOwnFeatureOnly ==
    fsCall.op = "write" =>
        \A f \in DOMAIN fsCall.before :
            BaseName(f) # SplitFirst(fsCall.name)
            => f \in DOMAIN files /\ files[f] = fsCall.before[f]

====
